---- MODULE Spec2Model ----
(***************************************************************************)
(* Model of act-feed-clean-go: the cleaner (segmenter, parallel map phase, *)
(* stage chain) and the pipeline controller.                                *)
(*                                                                          *)
(* Text is a sequence of runes (Unicode code points, as integers).  A Go    *)
(* string is the UTF-8 encoding of such a sequence, so byte offsets         *)
(* (len, strings.Index, strings.LastIndex) are computed from the encoded    *)
(* width of every rune, and rune offsets ([]rune slicing) from positions.   *)
(***************************************************************************)
EXTENDS Integers, Sequences, FiniteSets, TLC

(***************************************************************************)
(* Bounds of the model                                                      *)
(***************************************************************************)
MaxTokens == 3
MaxBudget == 27
MaxSegs == 2
RateLimitTicks == 2
MaxResults == 2
MaxParts == 4
MaxTextLen == 2
MaxItems == 3
MaxPad == 2
\* longest reduce output of the title selection
MaxHeadLen == 6
\* articles of a feed and the largest parallel value of runFeedExtraction
MaxArticles == 2
MaxParallel == 2

(***************************************************************************)
(* String constants of the program                                          *)
(***************************************************************************)
\* "\n\n--- DOCUMENT END ---\n\n"
ContentSeparator == <<10,10,45,45,45,32,68,79,67,85,77,69,78,84,32,69,78,68,32,45,45,45,10,10>>
\* "\n\n"
DefaultSeparator == <<10,10>>
MaxSegmentChars == 400000
lookback == 50

(***************************************************************************)
(* Go string primitives                                                     *)
(***************************************************************************)
Max2(a, b) == IF a >= b THEN a ELSE b
Min2(a, b) == IF a <= b THEN a ELSE b
SetMax(S) == CHOOSE x \in S : \A y \in S : y <= x
SetMin(S) == CHOOSE x \in S : \A y \in S : x <= y

\* width in bytes of the UTF-8 encoding of rune r
Utf8Len(r) == IF r < 128 THEN 1 ELSE IF r < 2048 THEN 2 ELSE IF r < 65536 THEN 3 ELSE 4

RECURSIVE ByteLen(_)
\* len(s) of a Go string: the number of bytes
ByteLen(s) == IF s = <<>> THEN 0 ELSE Utf8Len(Head(s)) + ByteLen(Tail(s))

\* s[lo:hi] on runes, 0-based like a Go slice
Slice(s, lo, hi) == SubSeq(s, lo + 1, hi)

\* rune positions (0-based) at which sep occurs in s
Occurrences(s, sep) ==
    {p \in 0..(Len(s) - Len(sep)) : Slice(s, p, p + Len(sep)) = sep}

\* strings.Index(s, sep): BYTE offset of the first occurrence, -1 if none
StringsIndex(s, sep) ==
    IF Occurrences(s, sep) = {} THEN -1
    ELSE ByteLen(Slice(s, 0, SetMin(Occurrences(s, sep))))

\* strings.LastIndex(s, sep): BYTE offset of the last occurrence, -1 if none
StringsLastIndex(s, sep) ==
    IF Occurrences(s, sep) = {} THEN -1
    ELSE ByteLen(Slice(s, 0, SetMax(Occurrences(s, sep))))

\* unicode.IsSpace on the runes the model uses
IsSpace(r) == r \in {9, 10, 11, 12, 13, 32, 133, 160, 12288}
\* unicode.IsPunct (category P) on the runes the model uses
IsPunct(r) ==
    r \in {33, 34, 35, 37, 38, 39, 40, 41, 42, 44, 45, 46, 47, 58, 59, 63, 64,
           91, 92, 93, 95, 123, 125, 161, 167, 171, 182, 183, 187, 191,
           12289, 12290, 12300, 12301}

RECURSIVE Flatten(_)
Flatten(ss) == IF ss = <<>> THEN <<>> ELSE Head(ss) \o Flatten(Tail(ss))

\* s[lo:hi] of a Go string: the runes that start at byte offsets lo..hi-1
ByteSlice(s, lo, hi) ==
    LET keep == {i \in 1..Len(s) :
                    /\ ByteLen(SubSeq(s, 1, i - 1)) >= lo
                    /\ ByteLen(SubSeq(s, 1, i - 1)) < hi}
    IN  IF keep = {} THEN <<>> ELSE SubSeq(s, SetMin(keep), SetMax(keep))

\* unicode.ToUpper, the mapping strings.ToUpper applies to each rune, on the
\* runes below U+0180 (ASCII, Latin-1, Latin Extended-A) and on the caseless
\* CJK blocks U+2E80..U+9FFF; the operator is not defined on other runes
ToUpperRune(r) ==
    CASE r >= 0 /\ r < 128 ->
            IF r >= 97 /\ r <= 122 THEN r - 32 ELSE r
      [] r >= 128 /\ r < 256 ->
            IF r = 181 THEN 924
            ELSE IF r = 255 THEN 376
            ELSE IF r >= 224 /\ r <= 254 /\ r # 247 THEN r - 32
            ELSE r
      [] r >= 256 /\ r < 384 ->
            IF r = 305 THEN 73
            ELSE IF r = 383 THEN 83
            ELSE IF (r <= 303 \/ (r >= 306 /\ r <= 311) \/ (r >= 330 /\ r <= 375))
                    /\ r % 2 = 1 THEN r - 1
            ELSE IF ((r >= 313 /\ r <= 328) \/ (r >= 377 /\ r <= 382))
                    /\ r % 2 = 0 THEN r - 1
            ELSE r
      [] r >= 11904 /\ r <= 40959 -> r
ToUpper(s) == [i \in 1..Len(s) |-> ToUpperRune(s[i])]

\* strings.TrimSpace
TrimSpace(s) ==
    LET keep == {i \in 1..Len(s) : ~IsSpace(s[i])}
    IN  IF keep = {} THEN <<>> ELSE SubSeq(s, SetMin(keep), SetMax(keep))

\* strings.HasPrefix
HasPrefix(s, prefix) ==
    Len(s) >= Len(prefix) /\ SubSeq(s, 1, Len(prefix)) = prefix

RECURSIVE SplitLines(_)
\* strings.Split(s, "\n")
SplitLines(s) ==
    LET nl == {i \in 1..Len(s) : s[i] = 10}
    IN  IF nl = {} THEN <<s>>
        ELSE <<SubSeq(s, 1, SetMin(nl) - 1)>>
                 \o SplitLines(SubSeq(s, SetMin(nl) + 1, Len(s)))

RECURSIVE Join(_, _)
\* strings.Join(elems, sep)
Join(elems, sep) ==
    IF elems = <<>> THEN <<>>
    ELSE IF Len(elems) = 1 THEN elems[1]
    ELSE elems[1] \o sep \o Join(Tail(elems), sep)

RECURSIVE Itoa(_)
\* the decimal digits of n >= 0, as %d prints them
Itoa(n) == IF n < 10 THEN <<48 + n>> ELSE Itoa(n \div 10) \o <<48 + (n % 10)>>

(***************************************************************************)
(* Segmenter: Cleaner.segmentText                                           *)
(***************************************************************************)
\* priority 1 advancing by the length of DefaultSeparator
docSplitWrongSeparator(cand, maxChars) ==
    LET lastSepIdx == StringsLastIndex(cand, ContentSeparator)
        potentialSplitIndex == lastSepIdx + ByteLen(DefaultSeparator)
    IN  IF lastSepIdx # -1 /\ potentialSplitIndex <= maxChars
        THEN potentialSplitIndex ELSE -1

\* priority 1: the last ContentSeparator of the candidate window
docSplit(cand, maxChars) ==
    LET lastSepIdx == StringsLastIndex(cand, ContentSeparator)
        potentialSplitIndex == lastSepIdx + ByteLen(ContentSeparator)
    IN  IF lastSepIdx # -1 /\ potentialSplitIndex <= maxChars
        THEN potentialSplitIndex ELSE -1

\* priority 2: the last DefaultSeparator of the candidate window
paraSplit(cand, maxChars) ==
    LET lastSepIdx == StringsLastIndex(cand, DefaultSeparator)
        potentialSplitIndex == lastSepIdx + ByteLen(DefaultSeparator)
    IN  IF lastSepIdx # -1 /\ potentialSplitIndex <= maxChars
        THEN potentialSplitIndex ELSE -1

\* breakSplit with lastMeaningfulBreak = i + 2
breakSplitOffByOne(cand) ==
    LET start == Max2(0, Len(cand) - lookback)
        hits == {i \in start..(Len(cand) - 1) :
                    IsPunct(cand[i + 1]) \/ IsSpace(cand[i + 1])}
    IN  IF hits = {} THEN -1 ELSE SetMax(hits) + 2

\* breakSplit with lastMeaningfulBreak = i: the break rune starts the rest
breakSplitBeforeBreak(cand) ==
    LET start == Max2(0, Len(cand) - lookback)
        hits == {i \in start..(Len(cand) - 1) :
                    IsPunct(cand[i + 1]) \/ IsSpace(cand[i + 1])}
    IN  IF hits = {} THEN -1 ELSE SetMax(hits)

\* breakSplit searching the whole window instead of its last lookback runes
breakSplitWholeWindow(cand) ==
    LET hits == {i \in 0..(Len(cand) - 1) :
                    IsPunct(cand[i + 1]) \/ IsSpace(cand[i + 1])}
    IN  IF hits = {} THEN -1 ELSE SetMax(hits) + 1

\* priority 3: one past the last punctuation or space rune of the lookback
breakSplit(cand) ==
    LET start == Max2(0, Len(cand) - lookback)
        hits == {i \in start..(Len(cand) - 1) :
                    IsPunct(cand[i + 1]) \/ IsSpace(cand[i + 1])}
    IN  IF hits = {} THEN -1 ELSE SetMax(hits) + 1

\* the split of one loop iteration on a text longer than maxChars:
\* splitIndex and the priority (1..4) that set it
splitChoice(current, maxChars) ==
    LET cand == Slice(current, 0, maxChars)
        p1 == docSplit(cand, maxChars)
        p2 == paraSplit(cand, maxChars)
        p3 == breakSplit(cand)
    IN  IF p1 # -1 THEN [splitIndex |-> p1, prio |-> 1]
        ELSE IF p2 # -1 THEN [splitIndex |-> p2, prio |-> 2]
        ELSE IF p3 # -1 THEN [splitIndex |-> p3, prio |-> 3]
        ELSE [splitIndex |-> maxChars, prio |-> 4]

\* segment emitted by current[:splitIndex], and what current[splitIndex:] leaves
segHead(current, splitIndex) == Slice(current, 0, splitIndex)
\* segRest taken at the byte length of the emitted segment
segRestByteOffset(current, splitIndex) ==
    Slice(current, Min2(ByteLen(Slice(current, 0, splitIndex)), Len(current)),
          Len(current))
segRest(current, splitIndex) == Slice(current, splitIndex, Len(current))

\* the loop's test with < in place of <=
fitsBudgetStrict(current, maxChars) == Len(current) < maxChars
\* len(current) <= maxChars: what is left is emitted as the last segment
fitsBudget(current, maxChars) == Len(current) <= maxChars

RECURSIVE segmentLoop(_, _, _)
segmentLoop(current, maxChars, fuel) ==
    IF Len(current) = 0 \/ fuel = 0 THEN <<>>
    ELSE IF fitsBudget(current, maxChars) THEN <<current>>
    ELSE LET k == splitChoice(current, maxChars).splitIndex
         IN  <<segHead(current, k)>>
                 \o segmentLoop(segRest(current, k), maxChars, fuel - 1)

\* segmentText(text, maxChars): the list of segments
segmentText(text, maxChars) == segmentLoop(text, maxChars, Len(text) + 1)

(***************************************************************************)
(* Text utilities of the cleaner and the pipeline                           *)
(***************************************************************************)
\* "\n\n--- INTERMEDIATE SUMMARY END ---\n\n"
IntermediateSeparator == <<10,10,45,45,45,32,73,78,84,69,82,77,69,68,73,65,84,69,32,83,85,77,77,65,82,89,32,69,78,68,32,45,45,45,10,10>>
\* "SCRIPT_START" and "SCRIPT_END"
ScriptStartTag == <<83,67,82,73,80,84,95,83,84,65,82,84>>
ScriptEndTag == <<83,67,82,73,80,84,95,69,78,68>>

\* titlesMap[url]: the empty string when the key is missing
TitleOf(titlesMap, url) ==
    IF url \in DOMAIN titlesMap THEN titlesMap[url] ELSE <<>>

\* the title used for a result: titlesMap[res.URL], the URL when that is empty
titleOrURL(titlesMap, url) ==
    IF TitleOf(titlesMap, url) = <<>> THEN url ELSE TitleOf(titlesMap, url)

\* CombineContents keeping every result without error
validForCombineKeepsEmpty(results) ==
    SelectSeq(results, LAMBDA res : res.err = "nil")
\* the results CombineContents keeps: no error and non-empty content
validForCombine(results) ==
    SelectSeq(results, LAMBDA res : res.err = "nil" /\ res.content # <<>>)

\* one block of CombineContents: header with index i+1, title and URL, then
\* the content, then the separator unless the block is the last one
combineBlock(valid, titlesMap, i) ==
    <<45,45,45,32,83,79,85,82,67,69,32,68,79,67,85,77,69,78,84,32>>
        \o Itoa(i + 1) \o <<32,45,45,45,10>>
        \o <<84,73,84,76,69,58,32>> \o titleOrURL(titlesMap, valid[i + 1].url) \o <<10>>
        \o <<85,82,76,58,32>> \o valid[i + 1].url \o <<10,10>>
        \o valid[i + 1].content
        \o (IF i < Len(valid) - 1 THEN ContentSeparator ELSE <<>>)

RECURSIVE combineFrom(_, _, _)
combineFrom(valid, titlesMap, i) ==
    IF i >= Len(valid) THEN <<>>
    ELSE combineBlock(valid, titlesMap, i) \o combineFrom(valid, titlesMap, i + 1)

\* CombineContents(results, titlesMap)
CombineContents(results, titlesMap) ==
    combineFrom(validForCombine(results), titlesMap, 0)

\* ExtractTextBetweenTags(text, startTag, endTag)
ExtractTextBetweenTags(text, startTag, endTag) ==
    LET startMarker == <<60>> \o ToUpper(startTag) \o <<62>>
        endMarker1 == <<60,47>> \o ToUpper(endTag) \o <<62>>
        endMarker2 == <<60>> \o ToUpper(endTag) \o <<62>>
        found == StringsIndex(text, startMarker)
        startIndex == found + ByteLen(startMarker)
        rest == ByteSlice(text, startIndex, ByteLen(text))
        e1 == StringsIndex(rest, endMarker1)
        e2 == StringsIndex(rest, endMarker2)
        endIndex == IF e1 # -1 THEN e1 + startIndex
                    ELSE IF e2 # -1 THEN e2 + startIndex ELSE -1
    IN  IF found = -1 THEN <<>>
        ELSE IF endIndex = -1 \/ endIndex < startIndex THEN <<>>
        ELSE TrimSpace(ByteSlice(text, startIndex, endIndex))

RECURSIVE firstTitle(_)
firstTitle(lines) ==
    IF lines = <<>> THEN <<>>
    ELSE IF HasPrefix(Head(lines), <<35,32>>)
            /\ TrimSpace(SubSeq(Head(lines), 3, Len(Head(lines)))) # <<>>
         THEN TrimSpace(SubSeq(Head(lines), 3, Len(Head(lines))))
         ELSE firstTitle(Tail(lines))

\* ExtractTitleFromMarkdown(markdownText)
ExtractTitleFromMarkdown(markdownText) == firstTitle(SplitLines(markdownText))

\* rawSection without the fallback to the URL
rawSectionNoFallback(res, titlesMap) ==
    <<35,35,32>> \o TitleOf(titlesMap, res.url) \o <<10,10>>
        \o res.content \o <<10,10,45,45,45,10,10>>

\* one section of processWithoutAI: "## <title>\n\n" content "\n\n---\n\n"
rawSection(res, titlesMap) ==
    <<35,35,32>> \o titleOrURL(titlesMap, res.url) \o <<10,10>>
        \o res.content \o <<10,10,45,45,45,10,10>>

RECURSIVE rawSections(_, _)
rawSections(successfulResults, titlesMap) ==
    IF successfulResults = <<>> THEN <<>>
    ELSE rawSection(Head(successfulResults), titlesMap)
             \o rawSections(Tail(successfulResults), titlesMap)

\* processWithoutAI(feedTitle, successfulResults, titlesMap)
processWithoutAI(feedTitle, successfulResults, titlesMap) ==
    <<35,32>> \o feedTitle \o <<10,10>> \o rawSections(successfulResults, titlesMap)

\* the required-field checks of the four prompt builders: "nil" or an error
BuildReduce(combinedText) == IF combinedText = <<>> THEN "prompt" ELSE "nil"
BuildFinalSummary(title, intermediateSummary) ==
    IF intermediateSummary = <<>> THEN "prompt" ELSE "nil"
\* BuildScript checking the Title field in place of FinalSummaryText
BuildScriptChecksTitle(title, finalSummaryText) ==
    IF title = <<>> THEN "prompt" ELSE "nil"
BuildScript(title, finalSummaryText) ==
    IF finalSummaryText = <<>> THEN "prompt" ELSE "nil"

(***************************************************************************)
(* State                                                                    *)
(***************************************************************************)
VARIABLES
    segments,    \* processSegmentsInParallel: argument segments
    ctxDone,     \* the run's context has been cancelled
    ctxDeadline, \* the deadline of the run's context, in ticks; -1 if none
    now,         \* clock, in ticks
    limNext,     \* limiter: earliest time of the next permit
    task,        \* per goroutine: position in its body and what it received
    resultsChan, \* resultsChan: buffered results in the order they were sent
    mapPc,       \* "idle" | "running" | "returned"
    mapRet,      \* what processSegmentsInParallel returned
    calls,       \* number of model calls started so far, per stage
    cfg,         \* Pipeline fields: Cleaner, VoicevoxEngineExecutor, OutputWAVPath
    state,       \* controller state of Pipeline.Run
    stage,       \* position inside processWithAI: "none" | "map" | "final" | "script"
    runnerResult,\* what ScrapeAndRun returned: FeedTitle, TitlesMap, Results
    loc,         \* locals of Run and processWithAI
    runErr,      \* the error Run returned, "nil" if none
    io,          \* output actions performed: synthesizer and text sink
    trail,       \* controller states entered so far, in order
    sgText,      \* segmentText: argument text
    sgMax,       \* segmentText: argument maxChars
    sgCurrent,   \* segmentText: current (runes not yet emitted)
    sgSegments,  \* segmentText: segments
    sgLast,      \* the split of the last loop iteration and whether it warned
    sgVerbose,   \* segmentText: c.config.Verbose
    sgPc,        \* "loop" | "done"
    exText,      \* GenerateScriptForVoicevox: response.Text
    exScript,    \* GenerateScriptForVoicevox: scriptText
    exOut,       \* GenerateScriptForVoicevox: the returned text
    exPc,        \* "extract" | "check" | "done"
    pb,          \* one prompt build and the model call that follows it
    fd,          \* Run resolving the feed: items, loop index, URL list, titles
    tl,          \* processWithAI choosing the title of the final summary
    nc,          \* NewCleaner: the configuration and the model of each call
    fx           \* runFeedExtraction: goroutines, semaphore, results, sink

segVars == <<sgText, sgMax, sgCurrent, sgSegments, sgLast, sgVerbose, sgPc>>
mapVars == <<segments, ctxDone, now, limNext, task, resultsChan, mapPc, mapRet, calls>>
runVars == <<cfg, state, stage, runnerResult, loc, runErr, io, trail>>
extVars == <<exText, exScript, exOut, exPc>>
vars == <<segVars, mapVars, runVars, extVars, ctxDeadline, pb, fd, tl, nc, fx>>

(***************************************************************************)
(* Parallel map phase: Cleaner.processSegmentsInParallel                    *)
(***************************************************************************)
NoCalls == [map |-> 0, reduce |-> 0, final |-> 0, script |-> 0]
NoErr == [kind |-> "nil", count |-> 0, messages |-> <<>>]
NoRet == [summaries |-> <<>>, err |-> NoErr]

\* texts a model call can return
RespTexts == {<<>>, <<120>>}

\* PromptBuilder.BuildMap: "nil" or the error for an empty SegmentText
BuildMap(segmentText_) == IF segmentText_ = <<>> THEN "prompt" ELSE "nil"

\* the goroutines started by the loop over segments, index 0..len-1
TaskIds(segs) == 0..(Len(segs) - 1)
spawnTasks(segs) ==
    [index \in TaskIds(segs) |->
        [pc |-> "start", grantAt |-> 0, summary |-> <<>>, err |-> "nil",
         built |-> FALSE]]
EmptyTasks == spawnTasks(<<>>)

\* the index field of a result sent by goroutine index, 0-based
resultIndexZeroBased(index) == index
\* the index field of a result sent by goroutine index: index + 1
resultIndex(index) == index + 1

\* the send on a channel of capacity 1, which blocks while a result is unread
sendResultAtUnbuffered(index, grantAt, summary, err) ==
    /\ Len(resultsChan) < 1
    /\ resultsChan' = Append(resultsChan,
            [index |-> resultIndex(index), summary |-> summary, err |-> err])
    /\ task' = [task EXCEPT ![index] =
            [pc |-> "done", grantAt |-> grantAt, summary |-> summary, err |-> err,
             built |-> err # "limiter"]]
\* resultsChan <- {index + 1, summary, err}; the goroutine returns.  Only the
\* send of the limiter's error comes before the call of BuildMap
sendResultAt(index, grantAt, summary, err) ==
    /\ resultsChan' = Append(resultsChan,
            [index |-> resultIndex(index), summary |-> summary, err |-> err])
    /\ task' = [task EXCEPT ![index] =
            [pc |-> "done", grantAt |-> grantAt, summary |-> summary, err |-> err,
             built |-> err # "limiter"]]
sendResult(index, summary, err) ==
    sendResultAt(index, task[index].grantAt, summary, err)

\* after limiter.Wait returned nil: BuildMap, then the model call is started
afterWait(index, grantAt) ==
    IF BuildMap(segments[index + 1]) # "nil"
    THEN /\ sendResultAt(index, grantAt, <<>>, "prompt")
         /\ UNCHANGED calls
    ELSE /\ task' = [task EXCEPT ![index] =
                [pc |-> "call", grantAt |-> grantAt, summary |-> <<>>, err |-> "nil",
                 built |-> TRUE]]
         /\ calls' = [calls EXCEPT !.map = @ + 1]
         /\ UNCHANGED resultsChan

NoDeadline == -1
\* ctx.Done() is closed: cancelled, or the deadline has passed
ctxIsDone == ctxDone \/ (ctxDeadline # NoDeadline /\ now >= ctxDeadline)

\* the limiter granting every permit at once
grantTimeUnlimited(t, next) == t
\* the time at which a limiter of burst 1 grants a permit asked for at time
\* t, when its previous permit allows the next one at time next
grantTime(t, next) == Max2(t, next)

\* limiter.Wait(ctx) is called: fails if ctx is done or the permit would come
\* after ctx's deadline, else reserves the next permit and either returns nil
\* at once or sleeps until the reserved time
TaskWait(index) ==
    /\ mapPc = "running"
    /\ task[index].pc = "start"
    /\ LET g == grantTime(now, limNext)
       IN  IF ctxIsDone \/ (ctxDeadline # NoDeadline /\ g > ctxDeadline)
           THEN /\ sendResult(index, <<>>, "limiter")
                /\ UNCHANGED <<limNext, calls>>
           ELSE /\ limNext' = g + RateLimitTicks
                /\ task' = [task EXCEPT ![index] =
                        [pc |-> IF g = now THEN "granted" ELSE "sleep",
                         grantAt |-> g, summary |-> <<>>, err |-> "nil",
                         built |-> FALSE]]
                /\ UNCHANGED <<resultsChan, calls>>
    /\ UNCHANGED <<segments, ctxDone, now, mapPc, mapRet>>

\* a goroutine whose Wait returned nil at once goes on: BuildMap, then the
\* send of the prompt error or the model call
TaskBuild(index) ==
    /\ mapPc = "running"
    /\ task[index].pc = "granted"
    /\ afterWait(index, task[index].grantAt)
    /\ UNCHANGED <<segments, ctxDone, now, limNext, mapPc, mapRet>>

\* the limiter's timer fires: Wait returns nil
TaskWake(index) ==
    /\ mapPc = "running"
    /\ task[index].pc = "sleep"
    /\ now >= task[index].grantAt
    /\ afterWait(index, task[index].grantAt)
    /\ UNCHANGED <<segments, ctxDone, now, limNext, mapPc, mapRet>>

\* Wait returning nil although ctx is done
TaskWaitCancelledProceeds(index) ==
    /\ mapPc = "running"
    /\ task[index].pc = "sleep"
    /\ ctxIsDone
    /\ afterWait(index, task[index].grantAt)
    /\ UNCHANGED <<segments, ctxDone, now, limNext, mapPc, mapRet>>

\* ctx is done while Wait sleeps: Wait returns ctx.Err()
TaskWaitCancelled(index) ==
    /\ mapPc = "running"
    /\ task[index].pc = "sleep"
    /\ ctxIsDone
    /\ sendResult(index, <<>>, "limiter")
    /\ UNCHANGED <<segments, ctxDone, now, limNext, mapPc, mapRet, calls>>

\* client.GenerateContent returns a response
TaskCallOk(index) ==
    /\ mapPc = "running"
    /\ task[index].pc = "call"
    /\ \E text \in RespTexts : sendResult(index, text, "nil")
    /\ UNCHANGED <<segments, ctxDone, now, limNext, mapPc, mapRet, calls>>

\* a failed call being made a second time before the goroutine gives up
TaskCallFailsRetries(index) ==
    /\ mapPc = "running"
    /\ task[index].pc = "call"
    /\ IF calls.map <= Len(segments)
       THEN /\ calls' = [calls EXCEPT !.map = @ + 1]
            /\ UNCHANGED <<task, resultsChan>>
       ELSE /\ sendResult(index, <<>>, "llm")
            /\ UNCHANGED calls
    /\ UNCHANGED <<segments, ctxDone, now, limNext, mapPc, mapRet>>

\* a failed call cancelling the context of the other goroutines
TaskCallFailsCancels(index) ==
    /\ mapPc = "running"
    /\ task[index].pc = "call"
    /\ sendResult(index, <<>>, "llm")
    /\ ctxDone' = TRUE
    /\ UNCHANGED <<segments, now, limNext, mapPc, mapRet, calls>>

\* client.GenerateContent returns an error
TaskCallFails(index) ==
    /\ mapPc = "running"
    /\ task[index].pc = "call"
    /\ sendResult(index, <<>>, "llm")
    /\ UNCHANGED <<segments, ctxDone, now, limNext, mapPc, mapRet, calls>>

\* the results read from the closed channel, in channel order
collectErrors(chan) ==
    LET failed == SelectSeq(chan, LAMBDA r : r.err # "nil")
    IN  [k \in 1..Len(failed) |-> [index |-> failed[k].index, cause |-> failed[k].err]]
collectSummaries(chan) ==
    LET ok == SelectSeq(chan, LAMBDA r : r.err = "nil")
    IN  [k \in 1..Len(ok) |-> ok[k].summary]

\* the value returned after the collection loop
mapReturn(chan) ==
    LET errorMessages == collectErrors(chan)
    IN  IF Len(errorMessages) > 0
        THEN [summaries |-> <<>>,
              err |-> [kind |-> "map", count |-> Len(errorMessages),
                       messages |-> errorMessages]]
        ELSE [summaries |-> collectSummaries(chan), err |-> NoErr]

\* wg.Wait() returning as soon as one goroutine is done
MapJoinEarly ==
    /\ mapPc = "running"
    /\ \E index \in DOMAIN task : task[index].pc = "done"
    /\ mapRet' = mapReturn(resultsChan)
    /\ mapPc' = "returned"
    /\ UNCHANGED <<segments, ctxDone, now, limNext, task, resultsChan, calls>>

\* wg.Wait() returns once every goroutine is done; close, collect, return
MapJoin ==
    /\ mapPc = "running"
    /\ \A index \in DOMAIN task : task[index].pc = "done"
    /\ mapRet' = mapReturn(resultsChan)
    /\ mapPc' = "returned"
    /\ UNCHANGED <<segments, ctxDone, now, limNext, task, resultsChan, calls>>

\* a goroutine that has not yet returned from limiter.Wait: the only readers
\* of the clock and of ctx.Done()
beforeLimiter(index) == task[index].pc \in {"start", "sleep"}

\* the context is cancelled or its deadline passes
CtxCancel ==
    /\ mapPc = "running"
    /\ \E index \in DOMAIN task : beforeLimiter(index)
    /\ ~ctxDone
    /\ ctxDone' = TRUE
    /\ UNCHANGED <<segments, now, limNext, task, resultsChan, mapPc, mapRet, calls>>

\* a goroutine blocked in Wait on a timer that has not fired yet
waitingForPermit(index) ==
    task[index].pc = "sleep" /\ now < task[index].grantAt

\* time passes while some goroutine has still to pass the limiter; once the
\* clock has reached the limiter's next permit every later Wait is granted at
\* once, so later clock values are not told apart.  A goroutine blocked in
\* Wait is woken by ctx.Done() before its timer can fire, so the clock does
\* not advance past a cancellation that such a goroutine has yet to take
Tick ==
    /\ mapPc = "running"
    /\ now < limNext
    /\ \E index \in DOMAIN task : beforeLimiter(index)
    /\ ~(ctxIsDone /\ \E index \in DOMAIN task : waitingForPermit(index))
    /\ now' = now + 1
    /\ UNCHANGED <<segments, ctxDone, limNext, task, resultsChan, mapPc, mapRet, calls>>

MapStep ==
    \/ \E index \in DOMAIN task :
          \/ TaskWait(index)
          \/ TaskBuild(index)
          \/ TaskWake(index)
          \/ TaskWaitCancelled(index)
          \/ TaskCallOk(index)
          \/ TaskCallFails(index)
    \/ MapJoin
    \/ CtxCancel
    \/ Tick

\* the context handed to the map phase has no deadline, or one that falls
\* within the first interval of the limiter
Deadlines == {NoDeadline} \cup 1..RateLimitTicks

\* segment lists handed to the map phase: the segments of segmentText, which
\* are never empty
MapSegTexts == {<<97>>, <<98>>}
MapSegLists == UNION {[1..n -> MapSegTexts] : n \in 0..MaxSegs}

MapIdle ==
    /\ segments = <<>>
    /\ ctxDone = FALSE
    /\ ctxDeadline = NoDeadline
    /\ now = 0
    /\ limNext = 0
    /\ task = EmptyTasks
    /\ resultsChan = <<>>
    /\ mapPc = "idle"
    /\ mapRet = NoRet
    /\ calls = NoCalls

SegIdle ==
    /\ sgText = <<>>
    /\ sgMax = 1
    /\ sgCurrent = <<>>
    /\ sgSegments = <<>>
    /\ sgLast = [splitIndex |-> 0, prio |-> 0, before |-> <<>>, warned |-> FALSE]
    /\ sgVerbose = FALSE
    /\ sgPc = "done"

NoLoc ==
    [successfulResults |-> <<>>, combinedTextForAI |-> <<>>, reduceResult |-> <<>>,
     title |-> <<>>, finalSummary |-> <<>>, scriptResponse |-> <<>>,
     scriptText |-> <<>>, err |-> "nil"]
NoRunnerResult == [FeedTitle |-> <<>>, TitlesMap |-> <<>>, Results |-> <<>>]
\* io.dir: the run has created the directory of OutputWAVPath ("out"), which
\* does not exist when the run starts
NoIo == [synth |-> 0, sink |-> 0, dir |-> FALSE, text |-> <<>>, err |-> "nil"]

ExtIdle ==
    /\ exText = <<>>
    /\ exScript = <<>>
    /\ exOut = <<>>
    /\ exPc = "done"

NoBuild ==
    [kind |-> "none", title |-> <<>>, text |-> <<>>, prompt |-> "", err |-> "nil",
     called |-> FALSE, pc |-> "returned"]
PbIdle == pb = NoBuild

NoFeed ==
    [items |-> <<>>, i |-> 0, urlsToScrape |-> <<>>, articleTitlesMap |-> <<>>,
     pc |-> "idle"]
FdIdle == fd = NoFeed

NoTitle ==
    [older |-> FALSE, reduceResult |-> <<>>, feedTitle |-> <<>>, itemTitles |-> <<>>,
     title |-> <<>>, warned |-> FALSE, pc |-> "idle"]
TlIdle == tl = NoTitle

NoCleaner ==
    [client |-> FALSE, input |-> <<>>, config |-> <<>>, rateLimit |-> 0,
     err |-> "nil", mapCalls |-> 0, used |-> {}, pc |-> "idle"]
NcIdle == nc = NoCleaner

NoFetch ==
    [parallel |-> 0, feedTitle |-> <<>>, articles |-> <<>>, ctxDone |-> FALSE,
     cur |-> 0, g |-> <<>>, results |-> <<>>, closed |-> FALSE,
     combinedText |-> <<>>, successCount |-> 0, written |-> <<>>, writes |-> 0,
     ret |-> "nil", pc |-> "idle"]
FxIdle == fx = NoFetch

RunIdle ==
    /\ cfg = [Cleaner |-> FALSE, Voicevox |-> FALSE, OutputWAVPath |-> ""]
    /\ state = "Idle"
    /\ stage = "none"
    /\ runnerResult = NoRunnerResult
    /\ loc = NoLoc
    /\ runErr = "nil"
    /\ io = NoIo
    /\ trail = <<>>

\* processSegmentsInParallel is entered with a list of segments
MapInit ==
    /\ segments \in MapSegLists
    /\ ctxDone = FALSE
    /\ ctxDeadline \in Deadlines
    /\ now = 0
    /\ limNext = 0
    /\ task = spawnTasks(segments)
    /\ resultsChan = <<>>
    /\ mapPc = "running"
    /\ mapRet = NoRet
    /\ calls = NoCalls
    /\ SegIdle
    /\ RunIdle
    /\ ExtIdle
    /\ PbIdle
    /\ FdIdle
    /\ TlIdle
    /\ NcIdle
    /\ FxIdle

MapNext == MapStep /\ UNCHANGED <<segVars, runVars, extVars, ctxDeadline, pb, fd, tl, nc, fx>>

SpecMap == MapInit /\ [][MapNext]_vars

(***************************************************************************)
(* Segmenter as a state machine: one action per loop iteration              *)
(***************************************************************************)
\* texts are built from a few tokens: the document marker, newline, an
\* ASCII letter, a 2-byte letter, a 3-byte punctuation rune, a space
SegTokens == {ContentSeparator, <<10>>, <<97>>, <<233>>, <<12290>>, <<32>>}
TokenSeqs == UNION {[1..n -> SegTokens] : n \in 0..MaxTokens}
NoSplit == [splitIndex |-> 0, prio |-> 0, before |-> <<>>, warned |-> FALSE]

SegInit ==
    /\ \E ts \in TokenSeqs : sgText = Flatten(ts)
    /\ sgMax \in 1..MaxBudget
    /\ sgCurrent = sgText
    /\ sgSegments = <<>>
    /\ sgLast = NoSplit
    /\ sgVerbose \in BOOLEAN
    /\ sgPc = "loop"
    /\ MapIdle
    /\ RunIdle
    /\ ExtIdle
    /\ PbIdle
    /\ FdIdle
    /\ TlIdle
    /\ NcIdle
    /\ FxIdle

\* len(current) == 0: the loop ends
SegmentEmpty ==
    /\ sgPc = "loop"
    /\ Len(sgCurrent) = 0
    /\ sgPc' = "done"
    /\ UNCHANGED <<sgText, sgMax, sgCurrent, sgSegments, sgLast, sgVerbose>>

\* len(current) <= maxChars: the rest is the last segment
SegmentLast ==
    /\ sgPc = "loop"
    /\ Len(sgCurrent) > 0
    /\ fitsBudget(sgCurrent, sgMax)
    /\ sgSegments' = Append(sgSegments, sgCurrent)
    /\ sgPc' = "done"
    /\ UNCHANGED <<sgText, sgMax, sgCurrent, sgLast, sgVerbose>>

\* the hard cut logging its warning whatever the configuration
hardCutWarnsAlways(verbose, prio) == prio = 4
\* slog.Warn of the forced split: no separator was found and Verbose is set
hardCutWarns(verbose, prio) == prio = 4 /\ verbose

\* one split
SegmentSplit ==
    /\ sgPc = "loop"
    /\ Len(sgCurrent) > 0
    /\ ~fitsBudget(sgCurrent, sgMax)
    /\ LET c == splitChoice(sgCurrent, sgMax)
       IN  /\ sgSegments' = Append(sgSegments, segHead(sgCurrent, c.splitIndex))
           /\ sgCurrent' = segRest(sgCurrent, c.splitIndex)
           /\ sgLast' = [splitIndex |-> c.splitIndex, prio |-> c.prio,
                         before |-> sgCurrent,
                         warned |-> hardCutWarns(sgVerbose, c.prio)]
    /\ UNCHANGED <<sgText, sgMax, sgVerbose, sgPc>>

SegNext ==
    (SegmentEmpty \/ SegmentLast \/ SegmentSplit)
        /\ UNCHANGED <<mapVars, runVars, extVars, ctxDeadline, pb, fd, tl, nc, fx>>

SpecSeg == SegInit /\ [][SegNext]_vars

\* budgets of a few runes, of about the length of the document marker, and
\* the largest one
FairBudgets == {1, 2, 3, Len(ContentSeparator), Len(ContentSeparator) + 1, MaxBudget}
\* Verbose only adds the warning to the log and is left unset
SegFairInit == SegInit /\ sgMax \in FairBudgets /\ ~sgVerbose
\* the loop keeps running until it ends
SpecSegFair == SegFairInit /\ [][SegNext]_vars /\ WF_vars(SegNext)

\* texts and budgets about as long as the lookback of priority 3: a run of
\* letters, then nothing, a space, a 3-byte punctuation rune, a paragraph
\* separator, a newline or a 2-byte letter, then a second run of letters
Letters(n) == [k \in 1..n |-> 97]
LongBreaks == {<<>>, <<32>>, <<12290>>, <<10, 10>>, <<10>>, <<233>>}
LongTexts ==
    {Letters(i) \o b \o Letters(j) :
        i \in 0..MaxPad, b \in LongBreaks,
        j \in (lookback - MaxPad)..(lookback + MaxPad)}
LongBudgets == (lookback - MaxPad)..(lookback + MaxPad)

\* segmentText is entered with a short text of tokens or with a long text
SegLongInit ==
    /\ \/ /\ \E ts \in TokenSeqs : sgText = Flatten(ts)
          /\ sgMax \in 1..MaxBudget
       \/ /\ sgText \in LongTexts
          /\ sgMax \in LongBudgets
    /\ sgCurrent = sgText
    /\ sgSegments = <<>>
    /\ sgLast = NoSplit
    /\ sgVerbose \in BOOLEAN
    /\ sgPc = "loop"
    /\ MapIdle
    /\ RunIdle
    /\ ExtIdle
    /\ PbIdle
    /\ FdIdle
    /\ TlIdle
    /\ NcIdle
    /\ FxIdle

SpecSegLong == SegLongInit /\ [][SegNext]_vars

(***************************************************************************)
(* Script extraction as a state machine: the tail of                        *)
(* GenerateScriptForVoicevox, from the model's response to the returned text *)
(***************************************************************************)
\* "<SCRIPT_START>", "</SCRIPT_END>", "<SCRIPT_END>"
StartMarker == <<60>> \o ScriptStartTag \o <<62>>
ClosedEndMarker == <<60,47>> \o ScriptEndTag \o <<62>>
UnclosedEndMarker == <<60>> \o ScriptEndTag \o <<62>>

\* responses are built from a few tokens: the three markers, a space, an
\* ASCII letter and a 2-byte letter
ExtTokens ==
    {StartMarker, ClosedEndMarker, UnclosedEndMarker, <<32>>, <<104>>, <<233>>}
ExtTokenSeqs == UNION {[1..n -> ExtTokens] : n \in 0..MaxParts}

\* client.GenerateContent has returned response.Text
ExtInit ==
    /\ \E ts \in ExtTokenSeqs : exText = Flatten(ts)
    /\ exScript = <<>>
    /\ exOut = <<>>
    /\ exPc = "extract"
    /\ MapIdle
    /\ SegIdle
    /\ RunIdle
    /\ PbIdle
    /\ FdIdle
    /\ TlIdle
    /\ NcIdle
    /\ FxIdle

\* scriptText := ExtractTextBetweenTags(response.Text, "SCRIPT_START", "SCRIPT_END")
ExtractMarked ==
    /\ exPc = "extract"
    /\ exScript' = ExtractTextBetweenTags(exText, ScriptStartTag, ScriptEndTag)
    /\ exPc' = "check"
    /\ UNCHANGED <<exText, exOut>>

\* the empty scriptText returned as it is
ScriptFallbackReturnsEmpty ==
    /\ exPc = "check"
    /\ exScript = <<>>
    /\ exOut' = exScript
    /\ exPc' = "done"
    /\ UNCHANGED <<exText, exScript>>

\* scriptText == "": warn and return response.Text, nil
ScriptFallback ==
    /\ exPc = "check"
    /\ exScript = <<>>
    /\ exOut' = exText
    /\ exPc' = "done"
    /\ UNCHANGED <<exText, exScript>>

\* return scriptText, nil
ScriptReturn ==
    /\ exPc = "check"
    /\ exScript # <<>>
    /\ exOut' = exScript
    /\ exPc' = "done"
    /\ UNCHANGED <<exText, exScript>>

ExtNext ==
    (ExtractMarked \/ ScriptFallback \/ ScriptReturn)
        /\ UNCHANGED <<segVars, mapVars, runVars, ctxDeadline, pb, fd, tl, nc, fx>>

SpecExt == ExtInit /\ [][ExtNext]_vars

(***************************************************************************)
(* One prompt build and its caller: the map goroutine, CleanAndStructureText,*)
(* GenerateFinalSummary and GenerateScriptForVoicevox each build their       *)
(* prompt, return on error, and only then call the model                     *)
(***************************************************************************)
\* the templates that have a Title field
TitledKinds == {"final", "script"}
\* texts of the required field: spaces, an ASCII letter, a 2-byte letter
PromptTexts == UNION {[1..n -> {32, 97, 233}] : n \in 0..MaxTextLen}
PromptTitles == {<<>>, <<84>>}

\* the error of the builder of a template for its data: "nil" if none
buildErr(kind, title, text) ==
    CASE kind = "map" -> BuildMap(text)
      [] kind = "reduce" -> BuildReduce(text)
      [] kind = "final" -> BuildFinalSummary(title, text)
      [] kind = "script" -> BuildScript(title, text)

\* the template data of a build is filled in
PbInit ==
    /\ \E kind \in {"map", "reduce", "final", "script"}, text \in PromptTexts,
          title \in PromptTitles :
          /\ kind \notin TitledKinds => title = <<>>
          /\ pb = [kind |-> kind, title |-> title, text |-> text, prompt |-> "",
                   err |-> "nil", called |-> FALSE, pc |-> "build"]
    /\ MapIdle
    /\ SegIdle
    /\ RunIdle
    /\ ExtIdle
    /\ FdIdle
    /\ TlIdle
    /\ NcIdle
    /\ FxIdle

\* prompt, err := builder.Build...(data): the rendered prompt and nil, or "" and an error
BuildPrompt ==
    /\ pb.pc = "build"
    /\ LET err == buildErr(pb.kind, pb.title, pb.text)
       IN  pb' = [pb EXCEPT !.err = err,
                            !.prompt = IF err = "nil" THEN "rendered" ELSE "",
                            !.pc = "built"]

\* if err != nil: the caller returns the error
CallerReturnsError ==
    /\ pb.pc = "built"
    /\ pb.err # "nil"
    /\ pb' = [pb EXCEPT !.pc = "returned"]

\* c.client.GenerateContent(ctx, prompt, model)
CallerCallsModel ==
    /\ pb.pc = "built"
    /\ pb.err = "nil"
    /\ pb' = [pb EXCEPT !.called = TRUE, !.pc = "called"]

PbNext ==
    (BuildPrompt \/ CallerReturnsError \/ CallerCallsModel)
        /\ UNCHANGED <<segVars, mapVars, runVars, extVars, ctxDeadline, fd, tl, nc, fx>>

SpecPrompt == PbInit /\ [][PbNext]_vars

(***************************************************************************)
(* Feed resolution at the head of Pipeline.Run (pkg/pipeline): the loop     *)
(* over the feed's items that fills urlsToScrape and articleTitlesMap       *)
(***************************************************************************)
\* items of a parsed feed: Link and Title, each possibly empty
FeedLinks == {<<>>, <<117>>, <<118>>}
FeedItemTitles == {<<>>, <<83>>, <<84>>}
FeedItems == [Link : FeedLinks, Title : FeedItemTitles]
FeedItemLists == UNION {[1..n -> FeedItems] : n \in 0..MaxItems}

\* articleTitlesMap[link] = title
mapPut(m, key, value) ==
    [k \in DOMAIN m \cup {key} |-> IF k = key THEN value ELSE m[k]]

\* FetchAndParse has returned the feed
FdInit ==
    /\ \E items \in FeedItemLists :
          fd = [items |-> items, i |-> 0, urlsToScrape |-> <<>>,
                articleTitlesMap |-> <<>>, pc |-> "loop"]
    /\ MapIdle
    /\ SegIdle
    /\ RunIdle
    /\ ExtIdle
    /\ PbIdle
    /\ TlIdle
    /\ NcIdle
    /\ FxIdle

\* the item is kept when both fields are non-empty
keepItem(item) == item.Link # <<>> /\ item.Title # <<>>

\* one iteration: the item has a Link and a Title
FeedItemKept ==
    /\ fd.pc = "loop"
    /\ fd.i < Len(fd.items)
    /\ keepItem(fd.items[fd.i + 1])
    /\ fd' = [fd EXCEPT
                !.urlsToScrape = Append(@, fd.items[fd.i + 1].Link),
                !.articleTitlesMap =
                    mapPut(@, fd.items[fd.i + 1].Link, fd.items[fd.i + 1].Title),
                !.i = @ + 1]

\* one iteration: the item lacks a Link or a Title
FeedItemSkipped ==
    /\ fd.pc = "loop"
    /\ fd.i < Len(fd.items)
    /\ ~keepItem(fd.items[fd.i + 1])
    /\ fd' = [fd EXCEPT !.i = @ + 1]

\* len(urlsToScrape) == 0: Run returns an error
FeedNoURLs ==
    /\ fd.pc = "loop"
    /\ fd.i = Len(fd.items)
    /\ Len(fd.urlsToScrape) = 0
    /\ fd' = [fd EXCEPT !.pc = "failed"]

\* the list is handed to the scraper
FeedScrapeStarts ==
    /\ fd.pc = "loop"
    /\ fd.i = Len(fd.items)
    /\ Len(fd.urlsToScrape) > 0
    /\ fd' = [fd EXCEPT !.pc = "scraping"]

FdNext ==
    (FeedItemKept \/ FeedItemSkipped \/ FeedNoURLs \/ FeedScrapeStarts)
        /\ UNCHANGED <<segVars, mapVars, runVars, extVars, ctxDeadline, pb, tl, nc, fx>>

SpecFeed == FdInit /\ [][FdNext]_vars

(***************************************************************************)
(* Pipeline controller: Pipeline.Run, processWithAI, processWithoutAI,      *)
(* handleOutput, and the stage chain of the Cleaner                         *)
(***************************************************************************)
\* what the scraper can return: two URLs, empty or non-empty content, or a
\* fetch error; the titles map gives each URL a title or none
Urls == {<<117>>, <<118>>}
Contents == {<<>>, <<97>>}
URLResults ==
    [url : Urls, content : Contents, err : {"nil"}]
        \cup [url : Urls, content : {<<>>}, err : {"fetch"}]
ResultLists == UNION {[1..n -> URLResults] : n \in 0..MaxResults}
TitlesMaps == [Urls -> {<<>>, <<84>>}]
FeedTitles == {<<70>>}

\* texts the model returns in the reduce, final-summary and script stages
\* "", "b", "# T\nb"
ReduceTexts == {<<>>, <<98>>, <<35,32,84,10,98>>}
\* "", "f"
FinalTexts == {<<>>, <<102>>}
\* "", "s", "<SCRIPT_START>h</SCRIPT_END>", "<SCRIPT_START> </SCRIPT_END>",
\* "<SCRIPT_START>h" and "</SCRIPT_END>h<SCRIPT_START>"
ScriptTexts ==
    {<<>>, <<115>>,
     StartMarker \o <<104>> \o ClosedEndMarker,
     StartMarker \o <<32>> \o ClosedEndMarker,
     StartMarker \o <<104>>,
     ClosedEndMarker \o <<104>> \o StartMarker}

Configs == [Cleaner : BOOLEAN, Voicevox : BOOLEAN, OutputWAVPath : {"", "out/o.wav"}]

\* a Pipeline has been built by New and Run is called
Init ==
    /\ cfg \in Configs
    /\ state = "Fetching"
    /\ stage = "none"
    /\ runnerResult = NoRunnerResult
    /\ loc = NoLoc
    /\ runErr = "nil"
    /\ io = NoIo
    /\ trail = <<"Fetching">>
    /\ MapIdle
    /\ SegIdle
    /\ ExtIdle
    /\ PbIdle
    /\ FdIdle
    /\ TlIdle
    /\ NcIdle
    /\ FxIdle

enter(st) ==
    /\ state' = st
    /\ trail' = Append(trail, st)

\* Run returns err
failWith(err) ==
    /\ enter("Failed")
    /\ runErr' = err

\* a call of processWithAI returns err; processWithAI and Run return it wrapped
failStage(err) ==
    /\ failWith(err)
    /\ loc' = [loc EXCEPT !.err = err]

\* successfulResults of Run, taking every result whatever its Error
successfulOfAll(results) == results
\* successfulResults of Run: the results whose Error is nil, in order
successfulOf(results) == SelectSeq(results, LAMBDA res : res.err = "nil")

\* ScrapeAndRun returns an error
ScrapeAndRunFails ==
    /\ state = "Fetching"
    /\ failWith("scrape")
    /\ UNCHANGED <<cfg, stage, runnerResult, loc, io, mapVars>>

\* ScrapeAndRun returns the feed title, the titles map and one result per URL
ScrapeAndRunReturns ==
    /\ state = "Fetching"
    /\ \E rs \in ResultLists, tm \in TitlesMaps, ft \in FeedTitles :
          runnerResult' = [FeedTitle |-> ft, TitlesMap |-> tm, Results |-> rs]
    /\ enter("Scraping")
    /\ UNCHANGED <<cfg, stage, loc, runErr, io, mapVars>>

\* Run choosing processWithAI whether or not a Cleaner is set
useAIAlways(c) == TRUE
\* Run chooses processWithAI: p.Cleaner != nil
useAI(c) == c.Cleaner

\* the text processWithAI hands to CleanAndStructureText
combinedTextOf(successfulResults, titlesMap) ==
    CombineContents(successfulResults, titlesMap)

\* Run after ScrapeAndRun: count the successes, fail on zero, then choose
\* processWithAI (which starts the map phase) or processWithoutAI
ClassifyResults ==
    /\ state = "Scraping"
    /\ LET successfulResults == successfulOf(runnerResult.Results)
           successCount == Len(successfulResults)
           combined == combinedTextOf(successfulResults, runnerResult.TitlesMap)
       IN  IF successCount = 0
           THEN /\ failWith("no_article")
                /\ UNCHANGED <<stage, loc, mapVars>>
           ELSE IF useAI(cfg)
           THEN /\ enter("Summarizing")
                /\ stage' = "map"
                /\ loc' = [loc EXCEPT !.successfulResults = successfulResults,
                                      !.combinedTextForAI = combined]
                /\ segments' = segmentText(combined, MaxSegmentChars)
                /\ task' = spawnTasks(segments')
                /\ mapPc' = "running"
                /\ UNCHANGED <<runErr, ctxDone, now, limNext, resultsChan, mapRet, calls>>
           ELSE /\ enter("RawConcatenating")
                /\ loc' = [loc EXCEPT !.successfulResults = successfulResults]
                /\ UNCHANGED <<stage, runErr, mapVars>>
    /\ UNCHANGED <<cfg, runnerResult, io>>

\* processWithoutAI builds the text; it has no error path
ProcessWithoutAI ==
    /\ state = "RawConcatenating"
    /\ loc' = [loc EXCEPT !.scriptText =
                  processWithoutAI(runnerResult.FeedTitle, loc.successfulResults,
                                   runnerResult.TitlesMap)]
    /\ enter("Outputting")
    /\ UNCHANGED <<cfg, stage, runnerResult, runErr, io, mapVars>>

\* the map phase has returned an error: the stage fails and Run continues
\* with processWithoutAI
ReduceStageFallsBack ==
    /\ state = "Summarizing"
    /\ stage = "map"
    /\ mapPc = "returned"
    /\ IF mapRet.err.kind # "nil"
       THEN /\ enter("RawConcatenating")
            /\ stage' = "none"
            /\ UNCHANGED <<runErr, loc, calls>>
       ELSE /\ \/ /\ \E text \in ReduceTexts :
                        loc' = [loc EXCEPT !.reduceResult = text]
                  /\ stage' = "final"
                  /\ UNCHANGED <<state, trail, runErr>>
               \/ /\ failStage("reduce_llm")
                  /\ UNCHANGED stage
            /\ calls' = [calls EXCEPT !.reduce = @ + 1]
    /\ UNCHANGED <<cfg, runnerResult, io>>
    /\ UNCHANGED <<segments, ctxDone, now, limNext, task, resultsChan, mapPc, mapRet>>

\* CleanAndStructureText after the map phase: propagate its error, else join
\* the summaries, build the reduce prompt and call the model
ReduceStage ==
    /\ state = "Summarizing"
    /\ stage = "map"
    /\ mapPc = "returned"
    /\ LET intermediateCombinedText == Join(mapRet.summaries, IntermediateSeparator)
       IN  IF mapRet.err.kind # "nil"
           THEN /\ failStage("map")
                /\ UNCHANGED <<stage, calls>>
           ELSE IF BuildReduce(intermediateCombinedText) # "nil"
           THEN /\ failStage("reduce_prompt")
                /\ UNCHANGED <<stage, calls>>
           ELSE /\ \/ /\ \E text \in ReduceTexts :
                            loc' = [loc EXCEPT !.reduceResult = text]
                      /\ stage' = "final"
                      /\ UNCHANGED <<state, trail, runErr>>
                   \/ /\ failStage("reduce_llm")
                      /\ UNCHANGED stage
                /\ calls' = [calls EXCEPT !.reduce = @ + 1]
    /\ UNCHANGED <<cfg, runnerResult, io>>
    /\ UNCHANGED <<segments, ctxDone, now, limNext, task, resultsChan, mapPc, mapRet>>

\* FinalSummaryStage logging the error of the model call and going on
FinalSummaryStageSwallowsError ==
    /\ state = "Summarizing"
    /\ stage = "final"
    /\ LET extracted == ExtractTitleFromMarkdown(loc.reduceResult)
           title == IF extracted = <<>> THEN runnerResult.FeedTitle ELSE extracted
       IN  IF BuildFinalSummary(title, loc.reduceResult) # "nil"
           THEN /\ failStage("final_prompt")
                /\ UNCHANGED <<stage, calls>>
           ELSE /\ \/ \E text \in FinalTexts :
                         loc' = [loc EXCEPT !.title = title, !.finalSummary = text]
                   \/ loc' = [loc EXCEPT !.title = title, !.err = "final_llm"]
                /\ stage' = "script"
                /\ UNCHANGED <<state, trail, runErr>>
                /\ calls' = [calls EXCEPT !.final = @ + 1]
    /\ UNCHANGED <<cfg, runnerResult, io>>
    /\ UNCHANGED <<segments, ctxDone, now, limNext, task, resultsChan, mapPc, mapRet>>

\* processWithAI: the title, then GenerateFinalSummary
FinalSummaryStage ==
    /\ state = "Summarizing"
    /\ stage = "final"
    /\ LET extracted == ExtractTitleFromMarkdown(loc.reduceResult)
           title == IF extracted = <<>> THEN runnerResult.FeedTitle ELSE extracted
       IN  IF BuildFinalSummary(title, loc.reduceResult) # "nil"
           THEN /\ failStage("final_prompt")
                /\ UNCHANGED <<stage, calls>>
           ELSE /\ \/ /\ \E text \in FinalTexts :
                            loc' = [loc EXCEPT !.title = title, !.finalSummary = text]
                      /\ stage' = "script"
                      /\ UNCHANGED <<state, trail, runErr>>
                   \/ /\ failStage("final_llm")
                      /\ UNCHANGED stage
                /\ calls' = [calls EXCEPT !.final = @ + 1]
    /\ UNCHANGED <<cfg, runnerResult, io>>
    /\ UNCHANGED <<segments, ctxDone, now, limNext, task, resultsChan, mapPc, mapRet>>

\* GenerateScriptForVoicevox returning the extracted text even when it is empty
scriptOfNoFallback(responseText) ==
    ExtractTextBetweenTags(responseText, ScriptStartTag, ScriptEndTag)
\* the text GenerateScriptForVoicevox returns for a model response
scriptOf(responseText) ==
    LET scriptText == ExtractTextBetweenTags(responseText, ScriptStartTag, ScriptEndTag)
    IN  IF scriptText = <<>> THEN responseText ELSE scriptText

\* processWithAI: GenerateScriptForVoicevox, then Run goes on to handleOutput
ScriptStage ==
    /\ state = "Summarizing"
    /\ stage = "script"
    /\ IF BuildScript(loc.title, loc.finalSummary) # "nil"
       THEN /\ failStage("script_prompt")
            /\ UNCHANGED <<stage, calls>>
       ELSE /\ \/ /\ \E text \in ScriptTexts :
                        loc' = [loc EXCEPT !.scriptResponse = text,
                                            !.scriptText = scriptOf(text)]
                  /\ stage' = "none"
                  /\ enter("Outputting")
                  /\ UNCHANGED runErr
               \/ /\ failStage("script_llm")
                  /\ UNCHANGED stage
            /\ calls' = [calls EXCEPT !.script = @ + 1]
    /\ UNCHANGED <<cfg, runnerResult, io>>
    /\ UNCHANGED <<segments, ctxDone, now, limNext, task, resultsChan, mapPc, mapRet>>

\* handleOutput taking the synthesis path whenever an executor is set
useSynthesisAnyPath(c) == c.Voicevox
\* handleOutput takes the synthesis path: an executor and a non-empty path
useSynthesis(c) == c.Voicevox /\ c.OutputWAVPath # ""

\* the error of the output action handleOutput has chosen, when it fails
outputErr(c) == IF useSynthesis(c) THEN "synthesis" ELSE "sink"

\* the output action of handleOutput is invoked with the text and returns err
invokeOutput(err) ==
    IF useSynthesis(cfg)
    THEN io' = [io EXCEPT !.synth = @ + 1, !.text = loc.scriptText, !.err = err]
    ELSE io' = [io EXCEPT !.sink = @ + 1, !.text = loc.scriptText, !.err = err]

\* handleOutput reporting success whatever the output action returned
HandleOutputIgnoresError ==
    /\ state = "Outputting"
    /\ \/ invokeOutput("nil")
       \/ invokeOutput(outputErr(cfg))
    /\ enter("Done")
    /\ UNCHANGED <<cfg, stage, runnerResult, loc, runErr, mapVars>>

\* handleOutput writing to the text sink when the synthesizer fails
HandleOutputFallsBackToSink ==
    /\ state = "Outputting"
    /\ \/ /\ invokeOutput("nil")
          /\ enter("Done")
          /\ UNCHANGED runErr
       \/ /\ useSynthesis(cfg)
          /\ io' = [io EXCEPT !.synth = @ + 1, !.sink = @ + 1,
                               !.text = loc.scriptText]
          /\ enter("Done")
          /\ UNCHANGED runErr
       \/ /\ ~useSynthesis(cfg)
          /\ invokeOutput("sink")
          /\ failWith("sink")
    /\ UNCHANGED <<cfg, stage, runnerResult, loc, mapVars>>

\* handleOutput: synthesis through the executor, or the text sink; Run
\* returns what the output action returned
HandleOutput ==
    /\ state = "Outputting"
    /\ \/ /\ invokeOutput("nil")
          /\ enter("Done")
          /\ UNCHANGED runErr
       \/ /\ invokeOutput(outputErr(cfg))
          /\ failWith(outputErr(cfg))
    /\ UNCHANGED <<cfg, stage, runnerResult, loc, mapVars>>

\* the steps of the map phase inside a run; the combined text of the results
\* above stays below MaxSegmentChars, so at most one goroutine exists, its
\* Wait is granted at once and it never sleeps
RunMapStep ==
    \/ \E index \in DOMAIN task :
          \/ TaskWait(index)
          \/ TaskBuild(index)
          \/ TaskCallOk(index)
          \/ TaskCallFails(index)
    \/ MapJoin
    \/ CtxCancel

Next ==
    /\ \/ ScrapeAndRunFails
       \/ ScrapeAndRunReturns
       \/ ClassifyResults
       \/ ProcessWithoutAI
       \/ (RunMapStep /\ UNCHANGED runVars)
       \/ ReduceStage
       \/ FinalSummaryStage
       \/ ScriptStage
       \/ HandleOutput
    /\ UNCHANGED <<segVars, extVars, ctxDeadline, pb, fd, tl, nc, fx>>

Spec == Init /\ [][Next]_vars

(***************************************************************************)
(* The AI path from the map phase on, for a combined text that segmentText  *)
(* has split into several segments: the goroutines of the map phase         *)
(* interleave, then the stage chain and the output follow.  A text of more  *)
(* than MaxSegmentChars runes is not enumerated: every segment is stood for *)
(* by a one-rune text and the article it came from by one result.           *)
(***************************************************************************)
StageSegLists == UNION {[1..n -> {<<97>>}] : n \in 0..MaxSegs}
StageResults == <<[url |-> <<117>>, content |-> <<97>>, err |-> "nil"]>>

\* Run has scraped, counted one success and entered processWithAI;
\* CleanAndStructureText has segmented the text and started the goroutines
StagesInit ==
    /\ cfg \in {c \in Configs : useAI(c) /\ c.OutputWAVPath # ""}
    /\ state = "Summarizing"
    /\ stage = "map"
    /\ runnerResult \in [FeedTitle : FeedTitles, TitlesMap : {[u \in Urls |-> <<>>]},
                          Results : {StageResults}]
    /\ segments \in StageSegLists
    /\ loc = [NoLoc EXCEPT !.successfulResults = StageResults,
                           !.combinedTextForAI = Flatten(segments)]
    /\ runErr = "nil"
    /\ io = NoIo
    /\ trail = <<"Fetching", "Scraping", "Summarizing">>
    /\ ctxDone = FALSE
    /\ ctxDeadline \in Deadlines
    /\ now = 0
    /\ limNext = 0
    /\ task = spawnTasks(segments)
    /\ resultsChan = <<>>
    /\ mapPc = "running"
    /\ mapRet = NoRet
    /\ calls = NoCalls
    /\ SegIdle
    /\ ExtIdle
    /\ PbIdle
    /\ FdIdle
    /\ TlIdle
    /\ NcIdle
    /\ FxIdle

StagesNext ==
    /\ \/ (MapStep /\ UNCHANGED runVars)
       \/ ReduceStage
       \/ FinalSummaryStage
       \/ ScriptStage
       \/ HandleOutput
    /\ UNCHANGED <<segVars, extVars, ctxDeadline, pb, fd, tl, nc, fx>>

SpecStages == StagesInit /\ [][StagesNext]_vars

\* every goroutine, collaborator call, timer of the limiter and step of the
\* controller eventually happens; the cancellation of the context need not
StagesProgress == StagesNext /\ ctxDone' = ctxDone
\* the runs with a synthesizer and a context without deadline or with a
\* deadline inside the first interval of the limiter
StagesFairInit ==
    /\ StagesInit
    /\ cfg.Voicevox
    /\ ctxDeadline \in {NoDeadline, 1}
SpecStagesFair == StagesFairInit /\ [][StagesNext]_vars /\ WF_vars(StagesProgress)

(***************************************************************************)
(* Properties of the segmenter                                              *)
(***************************************************************************)
HasMultiByte(s) == \E i \in 1..Len(s) : Utf8Len(s[i]) > 1

\* C2: the segments returned by segmentText are consecutive rune ranges of
\* the text: concatenated in order they give back the text, rune for rune
\* (and so byte for byte), for every text and every budget.
SegmentsLossless ==
    sgPc = "done" =>
        /\ Flatten(sgSegments) = sgText
        /\ ByteLen(Flatten(sgSegments)) = ByteLen(sgText)
        /\ segmentText(sgText, sgMax) = sgSegments

SegmentsLosslessWitness ==
    /\ sgPc = "done"
    /\ Len(sgSegments) >= 2
    /\ HasMultiByte(sgSegments[1])
    /\ sgLast.prio = 1

\* C3: every segment emitted by segmentText has at most maxChars runes,
\* whichever priority chose the split.
SegmentsWithinBudget ==
    \A i \in 1..Len(sgSegments) : Len(sgSegments[i]) <= sgMax

SegmentsWithinBudgetWitness ==
    /\ sgPc = "done"
    /\ Len(sgSegments) >= 2
    /\ sgLast.prio = 3
    /\ sgLast.splitIndex = sgMax
    /\ HasMultiByte(sgLast.before)

\* C13 as stated: for every text of at most maxChars runes segmentText
\* returns exactly one segment, equal to the text.
ShortTextOneSegment ==
    (sgPc = "done" /\ Len(sgText) <= sgMax) => sgSegments = <<sgText>>

\* C13: for every non-empty text of at most maxChars runes segmentText
\* returns exactly one segment, equal to the text, without choosing any
\* split; for the empty text it returns no segment.
ShortTextOneSegmentUnlessEmpty ==
    (sgPc = "done" /\ Len(sgText) <= sgMax) =>
        /\ sgSegments = (IF sgText = <<>> THEN <<>> ELSE <<sgText>>)
        /\ sgLast = NoSplit

ShortTextOneSegmentUnlessEmptyWitness ==
    /\ sgPc = "done"
    /\ Len(sgText) = sgMax
    /\ Occurrences(sgText, ContentSeparator) # {}
    /\ HasMultiByte(sgText)
    /\ sgSegments = <<sgText>>

\* rune positions of the document markers that lie fully within the first
\* maxChars runes of a text
markersInWindow(text, maxChars) ==
    {p \in Occurrences(text, ContentSeparator) : p + Len(ContentSeparator) <= maxChars}
\* rune position just after the last of them
lastMarkerEnd(text, maxChars) ==
    SetMax(markersInWindow(text, maxChars)) + Len(ContentSeparator)
\* the first split of the text has been chosen
FirstSplitDone == sgLast.prio # 0 /\ sgLast.before = sgText

\* C14: when a text longer than maxChars runes has a document marker fully
\* within its first maxChars runes, the first split index is at or after the
\* end of the last such marker, never inside it, also when multi-byte runes
\* precede the marker.
SplitNotInsideMarker ==
    (FirstSplitDone /\ markersInWindow(sgText, sgMax) # {}) =>
        /\ sgLast.splitIndex >= lastMarkerEnd(sgText, sgMax)
        /\ sgLast.splitIndex <= sgMax
        /\ Len(sgSegments[1]) >= lastMarkerEnd(sgText, sgMax)

SplitNotInsideMarkerWitness ==
    /\ FirstSplitDone
    /\ markersInWindow(sgText, sgMax) # {}
    /\ HasMultiByte(Slice(sgText, 0, SetMax(markersInWindow(sgText, sgMax))))
    /\ sgLast.prio = 1
    /\ sgLast.splitIndex > lastMarkerEnd(sgText, sgMax)

(***************************************************************************)
(* Properties of the map phase                                              *)
(***************************************************************************)
Range(f) == {f[x] : x \in DOMAIN f}
FailedTasks == {index \in DOMAIN task : task[index].err # "nil"}

\* C1: when every map task succeeds, the list processSegmentsInParallel
\* returns has at position i the summary received for segment i, whatever
\* the order in which the tasks completed.
MapOrderPreserved ==
    (mapPc = "returned" /\ mapRet.err.kind = "nil") =>
        mapRet.summaries = [k \in 1..Len(segments) |-> task[k - 1].summary]

\* C4: when the tasks of a non-empty set F of segments fail, the map phase
\* returns no summaries and one aggregated error that counts |F| errors and
\* names exactly the 1-based positions of the segments of F; when no task
\* fails it returns no error.
MapAllOrNothing ==
    mapPc = "returned" =>
        IF FailedTasks = {}
        THEN mapRet.err = NoErr /\ Len(mapRet.summaries) = Len(segments)
        ELSE /\ mapRet.summaries = <<>>
             /\ mapRet.err.kind = "map"
             /\ mapRet.err.count = Cardinality(FailedTasks)
             /\ Len(mapRet.err.messages) = Cardinality(FailedTasks)
             /\ {m.index : m \in Range(mapRet.err.messages)}
                    = {index + 1 : index \in FailedTasks}
             /\ \A m \in Range(mapRet.err.messages) :
                    m.cause = task[m.index - 1].err

MapAllOrNothingWitness ==
    /\ mapPc = "returned"
    /\ Len(segments) = 2
    /\ FailedTasks = {1}
    /\ task[1].err = "llm"
    /\ task[0].summary # <<>>
    /\ mapRet.err.count = 1

\* the goroutines whose limiter.Wait returned nil
PassedLimiter ==
    {index \in DOMAIN task :
        \/ task[index].pc \in {"granted", "call"}
        \/ task[index].pc = "done" /\ task[index].err # "limiter"}
\* the goroutines holding a permit of the limiter, granted or still awaited
HoldsPermit == PassedLimiter \cup {index \in DOMAIN task : task[index].pc = "sleep"}
Distance(a, b) == IF a >= b THEN a - b ELSE b - a

\* C15: the goroutines of one map phase are all started at once and share one
\* limiter of burst 1: in every interleaving the grant times of any two
\* permits are at least one interval apart, and no goroutine passes the
\* limiter before the time of its permit.
PermitsSpaced ==
    /\ mapPc # "idle" => DOMAIN task = TaskIds(segments)
    /\ \A i \in HoldsPermit, j \in HoldsPermit :
          i # j => Distance(task[i].grantAt, task[j].grantAt) >= RateLimitTicks
    /\ \A i \in PassedLimiter : now >= task[i].grantAt

PermitsSpacedWitness ==
    /\ mapPc = "returned"
    /\ Len(segments) = 2
    /\ PassedLimiter = {0, 1}
    /\ task[0].grantAt = RateLimitTicks
    /\ task[1].grantAt = 0
    /\ ctxDeadline = NoDeadline

(***************************************************************************)
(* Properties of the pipeline controller                                    *)
(***************************************************************************)
Entered(st) == st \in Range(trail)
Scraped == Entered("Scraping") /\ state # "Scraping"
Successes == {i \in DOMAIN runnerResult.Results : runnerResult.Results[i].err = "nil"}
AIErrors ==
    {"map", "reduce_prompt", "reduce_llm", "final_prompt", "final_llm",
     "script_prompt", "script_llm"}

\* C5: when no result returned by the scraper has a nil error, Run fails
\* with the all-fetches-failed error and makes no model call, no synthesis
\* and no sink write.
ZeroSuccessFails ==
    (Scraped /\ Successes = {}) =>
        /\ state = "Failed"
        /\ runErr = "no_article"
        /\ calls = NoCalls
        /\ io.synth = 0 /\ io.sink = 0
        /\ ~Entered("Summarizing") /\ ~Entered("RawConcatenating")
        /\ ~Entered("Outputting")

ZeroSuccessFailsWitness ==
    /\ state = "Failed"
    /\ runErr = "no_article"
    /\ Len(runnerResult.Results) = 2
    /\ cfg.Cleaner

\* the article names of the sections of a text: the rest of every line that
\* starts with the given prefix
RECURSIVE linesAfter(_, _)
linesAfter(lines, prefix) ==
    IF lines = <<>> THEN <<>>
    ELSE IF HasPrefix(Head(lines), prefix)
         THEN <<SubSeq(Head(lines), Len(prefix) + 1, Len(Head(lines)))>>
                  \o linesAfter(Tail(lines), prefix)
         ELSE linesAfter(Tail(lines), prefix)
RECURSIVE successUrls(_)
successUrls(results) ==
    IF results = <<>> THEN <<>>
    ELSE IF Head(results).err = "nil"
         THEN <<Head(results).url>> \o successUrls(Tail(results))
         ELSE successUrls(Tail(results))
expectedName(url) ==
    IF runnerResult.TitlesMap[url] = <<>> THEN url ELSE runnerResult.TitlesMap[url]
PartialFailure ==
    /\ Scraped
    /\ Successes # {}
    /\ Cardinality(Successes) < Len(runnerResult.Results)

\* C6: with N results of which k succeed, 1 <= k < N, Run does not fail for
\* the N-k failures, and the text handed to the next stage has exactly one
\* section per successful result, in order, and none for a failed result:
\* the "URL: " lines of the combined text in AI mode, the "## " headers of
\* the raw concatenation otherwise.
PartialFailureUsesSuccesses ==
    PartialFailure =>
        /\ runErr # "no_article"
        /\ Entered("Summarizing") =>
              linesAfter(SplitLines(loc.combinedTextForAI), <<85,82,76,58,32>>)
                  = successUrls(runnerResult.Results)
        /\ (Entered("RawConcatenating") /\ Entered("Outputting")) =>
              linesAfter(SplitLines(loc.scriptText), <<35,35,32>>)
                  = [k \in 1..Len(successUrls(runnerResult.Results)) |->
                        expectedName(successUrls(runnerResult.Results)[k])]

\* C7: once Run has entered Summarizing, RawConcatenating is never entered;
\* a failed map phase or a failed reduce, final-summary or script stage ends
\* the run in Failed with that stage's error, and neither the synthesizer nor
\* the text sink is invoked; output happens only after all four stages
\* succeeded.
NoFallbackFromAI ==
    Entered("Summarizing") =>
        /\ ~Entered("RawConcatenating")
        /\ (mapPc = "returned" /\ mapRet.err.kind # "nil") =>
              /\ state \in {"Summarizing", "Failed"}
              /\ state = "Failed" => runErr = "map"
        /\ runErr \in AIErrors =>
              /\ state = "Failed"
              /\ ~Entered("Outputting")
              /\ io.synth = 0 /\ io.sink = 0
        /\ Entered("Outputting") =>
              /\ mapRet.err.kind = "nil"
              /\ calls.reduce = 1 /\ calls.final = 1 /\ calls.script = 1

NoFallbackFromAIWitness ==
    /\ state = "Failed"
    /\ runErr = "map"
    /\ Entered("Summarizing")
    /\ mapRet.err.count = 1
    /\ Cardinality(Successes) >= 1

\* C8: after Scraping with at least one success, Run enters Summarizing if
\* and only if a Cleaner is configured and RawConcatenating otherwise;
\* RawConcatenating always goes on to Outputting and makes no model call.
ModeSelection ==
    (Scraped /\ Successes # {}) =>
        /\ Len(trail) >= 3
        /\ trail[3] = (IF cfg.Cleaner THEN "Summarizing" ELSE "RawConcatenating")
        /\ Entered("Summarizing") <=> cfg.Cleaner
        /\ Entered("RawConcatenating") =>
              /\ calls = NoCalls
              /\ mapPc = "idle"
              /\ runErr \notin AIErrors
              /\ Len(trail) >= 4 => trail[4] = "Outputting"

ModeSelectionWitness ==
    /\ ~cfg.Cleaner
    /\ state = "Done"
    /\ Entered("RawConcatenating")
    /\ Cardinality(Successes) = 1
    /\ Len(runnerResult.Results) = 2

\* the text the raw mode is to produce, from the scraper's result list
expectedSection(res) ==
    <<35,35,32>> \o expectedName(res.url) \o <<10,10>> \o res.content
        \o <<10,10,45,45,45,10,10>>
RECURSIVE expectedSections(_)
expectedSections(results) ==
    IF results = <<>> THEN <<>>
    ELSE (IF Head(results).err = "nil" THEN expectedSection(Head(results)) ELSE <<>>)
             \o expectedSections(Tail(results))

\* C9: with summarization disabled the final text is the header
\* "# <feedTitle>\n\n" followed by one section
\* "## <title>\n\n<content>\n\n---\n\n" per successful result, in the order of
\* the result list, the URL standing in for a missing title; failed results
\* contribute nothing; this is the text handed to the output.
RawConcatenationOutput ==
    (Entered("RawConcatenating") /\ Entered("Outputting")) =>
        /\ loc.scriptText =
              <<35,32>> \o runnerResult.FeedTitle \o <<10,10>>
                  \o expectedSections(runnerResult.Results)
        /\ state # "Outputting" => io.text = loc.scriptText

RawConcatenationOutputWitness ==
    /\ state = "Done"
    /\ Entered("RawConcatenating")
    /\ Len(runnerResult.Results) = 2
    /\ runnerResult.Results[1].err = "nil"
    /\ runnerResult.Results[2].err = "nil"
    /\ runnerResult.Results[1].url # runnerResult.Results[2].url
    /\ runnerResult.TitlesMap[runnerResult.Results[1].url] = <<>>
    /\ runnerResult.TitlesMap[runnerResult.Results[2].url] # <<>>

\* C10: in a run that reaches Outputting, handleOutput performs exactly one
\* of synthesis and sink write: synthesis if and only if an executor is set
\* and the output path is non-empty; before Outputting neither happens, and
\* the synthesizer is invoked at most once and never with the sink.
OutputRoutingExclusive ==
    /\ io.synth + io.sink <= 1
    /\ ~Entered("Outputting") => io.synth + io.sink = 0
    /\ state = "Outputting" => io.synth + io.sink = 0
    /\ (Entered("Outputting") /\ state # "Outputting") =>
          /\ io.synth + io.sink = 1
          /\ io.synth = 1 <=> (cfg.Voicevox /\ cfg.OutputWAVPath # "")

OutputRoutingExclusiveWitness ==
    /\ state = "Done"
    /\ cfg.Voicevox
    /\ cfg.OutputWAVPath = ""
    /\ io.sink = 1

(***************************************************************************)
(* Properties of the stage chain                                            *)
(***************************************************************************)
AllTasksDone == \A index \in DOMAIN task : task[index].pc = "done"
OutputActed == io.synth + io.sink >= 1

\* C16: in an AI-mode run the reduce call starts only after every map task
\* has completed and the map phase has returned, the final-summary call only
\* after the reduce call returned a text, the script call only after the
\* final-summary call returned a text, and the output action only after the
\* script stage returned.
StagesNotPipelined ==
    /\ calls.reduce >= 1 =>
          /\ AllTasksDone
          /\ mapPc = "returned"
          /\ mapRet.err.kind = "nil"
          /\ Len(resultsChan) = Len(segments)
    /\ calls.final >= 1 =>
          /\ calls.reduce = 1
          /\ runErr # "reduce_llm"
          /\ stage \in {"final", "script", "none"}
    /\ calls.script >= 1 =>
          /\ calls.final = 1
          /\ runErr # "final_llm"
          /\ stage \in {"script", "none"}
    /\ OutputActed =>
          /\ calls.script = 1
          /\ runErr # "script_llm"
          /\ stage = "none"
          /\ Entered("Outputting")

StagesNotPipelinedWitness ==
    /\ state = "Done"
    /\ Len(segments) = 2
    /\ calls = [map |-> 2, reduce |-> 1, final |-> 1, script |-> 1]
    /\ OutputActed
    /\ now > 0

\* the model calls a run may have made when it returns each stage error
CallsAtError ==
    [map |-> [reduce |-> 0, final |-> 0, script |-> 0],
     reduce_prompt |-> [reduce |-> 0, final |-> 0, script |-> 0],
     reduce_llm |-> [reduce |-> 1, final |-> 0, script |-> 0],
     final_prompt |-> [reduce |-> 1, final |-> 0, script |-> 0],
     final_llm |-> [reduce |-> 1, final |-> 1, script |-> 0],
     script_prompt |-> [reduce |-> 1, final |-> 1, script |-> 0],
     script_llm |-> [reduce |-> 1, final |-> 1, script |-> 1]]

\* C17: when the map phase or the reduce, final-summary or script stage
\* fails with a prompt-build or model-call error, Run returns that stage's
\* error, no model call of a later stage is made, and nothing is output.
StageErrorsPropagate ==
    /\ mapRet.err.kind # "nil" =>
          /\ state \in {"Summarizing", "Failed"}
          /\ state = "Failed" => runErr = "map"
          /\ calls.reduce = 0 /\ calls.final = 0 /\ calls.script = 0
    /\ loc.err # "nil" =>
          /\ state = "Failed"
          /\ runErr = loc.err
    /\ runErr \in AIErrors =>
          /\ state = "Failed"
          /\ loc.err = runErr
          /\ calls.reduce = CallsAtError[runErr].reduce
          /\ calls.final = CallsAtError[runErr].final
          /\ calls.script = CallsAtError[runErr].script
          /\ ~OutputActed
          /\ runErr = "map" <=> mapRet.err.kind # "nil"

StageErrorsPropagateWitness ==
    /\ state = "Failed"
    /\ runErr = "final_llm"
    /\ Len(segments) = 2
    /\ calls = [map |-> 2, reduce |-> 1, final |-> 1, script |-> 0]

\* the goroutines whose limiter.Wait returned an error
RefusedTasks ==
    {index \in DOMAIN task : task[index].pc = "done" /\ task[index].err = "limiter"}
\* the results in the channel for the position of goroutine index
resultsOf(index) ==
    {k \in 1..Len(resultsChan) : resultsChan[k].index = index + 1}

\* what cancellation has led to so far
CancellationFailsRun ==
    /\ \A index \in RefusedTasks :
          /\ ctxIsDone \/ ctxDeadline # NoDeadline
          /\ Cardinality(resultsOf(index)) = 1
          /\ \A k \in resultsOf(index) :
                resultsChan[k].err = "limiter" /\ resultsChan[k].summary = <<>>
    /\ calls.map = Cardinality({index \in PassedLimiter : task[index].pc # "granted"})
    /\ RefusedTasks # {} =>
          /\ mapPc \in {"running", "returned"}
          /\ mapPc = "returned" =>
                /\ AllTasksDone
                /\ mapRet.summaries = <<>>
                /\ mapRet.err.kind = "map"
                /\ \A index \in RefusedTasks :
                      \E m \in Range(mapRet.err.messages) :
                          m.index = index + 1 /\ m.cause = "limiter"
          /\ state \in {"Summarizing", "Failed"}
          /\ state = "Failed" => runErr = "map"
          /\ calls.reduce = 0 /\ calls.final = 0 /\ calls.script = 0
          /\ ~OutputActed /\ ~Entered("Outputting")
          /\ state = "Summarizing" => ENABLED StagesNext

\* a goroutine waiting for its permit when ctx is done leaves Wait only with
\* an error
WaitingTaskIsRefused ==
    \A index \in DOMAIN task :
        (ctxIsDone /\ waitingForPermit(index)) =>
            \/ task'[index] = task[index]
            \/ task'[index].pc = "done" /\ task'[index].err = "limiter"

\* C20: when the context is cancelled or its deadline passes while map tasks
\* wait on the limiter, each such task sends an error result for its
\* position without calling the model, every task can still finish, the map
\* phase returns the aggregated error, and the run ends in Failed without
\* any output.
CancellationDuringMap ==
    []CancellationFailsRun /\ [][WaitingTaskIsRefused]_vars

CancellationDuringMapWitness ==
    /\ state = "Failed"
    /\ runErr = "map"
    /\ ctxDone
    /\ Len(segments) = 2
    /\ RefusedTasks = {1}
    /\ task[1].grantAt = RateLimitTicks
    /\ task[0].summary # <<>>
    /\ calls.map = 1

(***************************************************************************)
(* Properties of the prompt builders                                        *)
(***************************************************************************)
\* C18: a prompt builder returns an error and no prompt exactly when the
\* required text field of its data is empty (SegmentText, CombinedText,
\* IntermediateSummary, FinalSummaryText); the model call of that build is
\* then never made; an empty Title does not cause a rejection.
PromptRejectsEmpty ==
    pb.pc \in {"built", "called", "returned"} /\ pb.kind # "none" =>
        /\ pb.err # "nil" <=> pb.text = <<>>
        /\ pb.err # "nil" => pb.prompt = "" /\ ~pb.called
        /\ pb.err = "nil" => pb.prompt # ""
        /\ pb.called => pb.text # <<>>
        /\ pb.pc = "returned" => ~pb.called

PromptRejectsEmptyWitness ==
    /\ pb.kind = "script"
    /\ pb.pc = "returned"
    /\ pb.title # <<>>
    /\ pb.text = <<>>
    /\ pb.err = "prompt"
    /\ ~pb.called

(***************************************************************************)
(* Properties of the feed resolution                                        *)
(***************************************************************************)
\* C19: the list of URLs Run hands to the scraper holds only links of items
\* whose link and title are both non-empty, and holds each URL at most once,
\* also when several items of the feed have the same link.
FeedUrlsDeduplicated ==
    fd.pc = "scraping" =>
        /\ \A k \in 1..Len(fd.urlsToScrape) :
              /\ fd.urlsToScrape[k] # <<>>
              /\ fd.urlsToScrape[k] \in DOMAIN fd.articleTitlesMap
              /\ fd.articleTitlesMap[fd.urlsToScrape[k]] # <<>>
        /\ \A k, l \in 1..Len(fd.urlsToScrape) :
              k # l => fd.urlsToScrape[k] # fd.urlsToScrape[l]

(***************************************************************************)
(* Properties of the script extraction                                      *)
(***************************************************************************)
\* rune position just after the first start marker of a text that has one
afterStart(text) == SetMin(Occurrences(text, StartMarker)) + Len(StartMarker)
\* rune positions of the end markers that follow the first start marker
closedEnds(text) == {p \in Occurrences(text, ClosedEndMarker) : p >= afterStart(text)}
unclosedEnds(text) == {p \in Occurrences(text, UnclosedEndMarker) : p >= afterStart(text)}
HasStart(text) == Occurrences(text, StartMarker) # {}
\* the text has a start marker followed later by an end marker
HasMarkedSpan(text) ==
    HasStart(text) /\ (closedEnds(text) \cup unclosedEnds(text)) # {}
\* the trimmed runes between the first start marker and the end marker, the
\* closed form before the unclosed one
MarkedText(text) ==
    LET endAt == IF closedEnds(text) # {} THEN SetMin(closedEnds(text))
                 ELSE SetMin(unclosedEnds(text))
    IN  TrimSpace(Slice(text, afterStart(text), endAt))

\* C11: for a response that contains the start marker followed later by an
\* end marker, the script stage returns the whitespace-trimmed text between
\* the end of the first start marker and the end marker, the closed form
\* </SCRIPT_END> tried first and the unclosed form <SCRIPT_END> used only
\* when no closed form follows.
ScriptExtraction ==
    (exPc = "done" /\ HasMarkedSpan(exText)) => exOut = MarkedText(exText)

\* the script model call of the run has returned a response
ScriptResponded ==
    Entered("Summarizing") /\ calls.script = 1 /\ runErr # "script_llm"

\* C12: when the script response has no start marker, or no end marker after
\* the start marker, GenerateScriptForVoicevox returns the whole response
\* unchanged and no error, and Run goes on to Outputting.
ScriptFallbackContinues ==
    (ScriptResponded /\ ~HasMarkedSpan(loc.scriptResponse)) =>
        /\ loc.scriptText = loc.scriptResponse
        /\ Entered("Outputting")
        /\ runErr \notin AIErrors
        /\ state # "Outputting" => io.text = loc.scriptResponse

ScriptFallbackContinuesWitness ==
    /\ state = "Done"
    /\ ScriptResponded
    /\ HasStart(loc.scriptResponse)
    /\ ~HasMarkedSpan(loc.scriptResponse)
    /\ loc.scriptText = StartMarker \o <<104>>

(***************************************************************************)
(* Properties of the controller's transitions and of the output             *)
(***************************************************************************)
ControllerStates ==
    {"Fetching", "Scraping", "Summarizing", "RawConcatenating", "Outputting",
     "Done", "Failed"}
\* the transitions of the controller's state diagram
AllowedTransitions ==
    {<<"Fetching", "Scraping">>, <<"Scraping", "Summarizing">>,
     <<"Scraping", "RawConcatenating">>, <<"Summarizing", "Outputting">>,
     <<"RawConcatenating", "Outputting">>, <<"Outputting", "Done">>}
        \cup {<<st, "Failed">> : st \in ControllerStates \ {"Done", "Failed"}}

\* every change of the controller state is a transition of the diagram
ControllerStep ==
    state' # state =>
        /\ <<state, state'>> \in AllowedTransitions
        /\ trail' = Append(trail, state')

\* what has happened before Outputting and before Done
ControllerGuards ==
    /\ state \in ControllerStates
    /\ trail[Len(trail)] = state
    /\ Entered("Outputting") =>
          /\ Successes # {}
          /\ Entered("Summarizing") # Entered("RawConcatenating")
          /\ Entered("Summarizing") =>
                /\ mapPc = "returned" /\ mapRet.err.kind = "nil"
                /\ calls.reduce = 1 /\ calls.final = 1 /\ calls.script = 1
                /\ loc.err = "nil"
          /\ runErr \notin AIErrors \cup {"scrape", "no_article"}
    /\ state = "Done" =>
          /\ Entered("Outputting")
          /\ OutputActed
          /\ io.err = "nil"
          /\ runErr = "nil"
    /\ state = "Failed" <=> runErr # "nil"

\* C21: Run only takes the transitions Fetching -> Scraping -> (Summarizing |
\* RawConcatenating) -> Outputting -> Done and transitions to the terminal
\* state Failed; Outputting is entered only after at least one result
\* succeeded and the chosen text-producing stage completed without error,
\* and Done only after the output action returned without error.
ControllerStateMachine == []ControllerGuards /\ [][ControllerStep]_vars

ControllerStateMachineWitness ==
    /\ trail = <<"Fetching", "Scraping", "Summarizing", "Outputting", "Done">>
    /\ Cardinality(Successes) = 1
    /\ Len(runnerResult.Results) = 2
    /\ io.err = "nil"

SynthesisSelected == cfg.Voicevox /\ cfg.OutputWAVPath # ""

\* C22: when synthesis is the selected output and the synthesizer returns an
\* error, Run returns that error, ends in Failed and the text sink is not
\* written in its place; when the sink is the selected output and the write
\* fails, Run returns that error; a run never ends in Done after an output
\* error.
OutputFailureFatal ==
    /\ io.synth >= 1 => io.sink = 0
    /\ (OutputActed /\ io.err # "nil") =>
          /\ state = "Failed"
          /\ runErr = io.err
          /\ io.err = (IF SynthesisSelected THEN "synthesis" ELSE "sink")
          /\ SynthesisSelected => io.synth = 1 /\ io.sink = 0
          /\ ~SynthesisSelected => io.synth = 0 /\ io.sink = 1
    /\ (Entered("Outputting") /\ state = "Failed") =>
          OutputActed /\ io.err # "nil"
    /\ (Entered("Outputting") /\ state = "Done") => io.err = "nil"

OutputFailureFatalWitness ==
    /\ state = "Failed"
    /\ runErr = "synthesis"
    /\ SynthesisSelected
    /\ io.synth = 1
    /\ io.sink = 0
    /\ Entered("Summarizing")

(***************************************************************************)
(* Further properties of the map phase                                      *)
(***************************************************************************)
DoneTasks == {index \in DOMAIN task : task[index].pc = "done"}

\* what the goroutines have sent and what the collection loop has read
MapNoLeak ==
    /\ Len(resultsChan) = Cardinality(DoneTasks)
    /\ Len(resultsChan) <= Len(segments)
    /\ \A index \in DOMAIN task :
          /\ Cardinality(resultsOf(index)) = (IF index \in DoneTasks THEN 1 ELSE 0)
          /\ index \notin DoneTasks => Len(resultsChan) < Len(segments)
          /\ \A k \in resultsOf(index) :
                /\ resultsChan[k].err = task[index].err
                /\ resultsChan[k].summary = task[index].summary
    /\ mapPc = "returned" =>
          /\ DoneTasks = TaskIds(segments)
          /\ Len(resultsChan) = Len(segments)
          /\ Len(collectErrors(resultsChan)) + Len(collectSummaries(resultsChan))
                = Len(segments)
          /\ mapRet.err.count = Cardinality(FailedTasks)
          /\ FailedTasks = {} => Len(mapRet.summaries) = Len(segments)
    /\ (mapPc = "running" /\ DoneTasks # TaskIds(segments)) =>
          ENABLED (MapStep /\ ~MapJoin)
    /\ (mapPc = "running" /\ DoneTasks = TaskIds(segments)) => ENABLED MapJoin

\* a step of one goroutine changes no other goroutine, never removes a
\* result from the channel and never cancels the context
MapTaskLocal ==
    /\ \A i, j \in DOMAIN task :
          (i # j /\ task'[i] # task[i]) => task'[j] = task[j]
    /\ \A index \in DOMAIN task : task[index].pc = "done" => task'[index] = task[index]
    /\ task' # task => ctxDone' = ctxDone
    /\ Len(resultsChan') >= Len(resultsChan)
    /\ SubSeq(resultsChan', 1, Len(resultsChan)) = resultsChan

\* C23: a failing map task does not cancel the others and nothing leaks: in
\* every interleaving each of the N goroutines sends exactly one result, for
\* its own position, into a channel that has room for it, and can always
\* take its next step; processSegmentsInParallel returns only after all N
\* goroutines are done and collects exactly N results.
MapTasksIndependent == []MapNoLeak /\ [][MapTaskLocal]_vars

MapTasksIndependentWitness ==
    /\ mapPc = "returned"
    /\ Len(segments) = 2
    /\ resultsChan[1].index = 1 /\ resultsChan[1].err = "llm"
    /\ resultsChan[2].index = 2 /\ resultsChan[2].err = "nil"
    /\ task[1].summary # <<>>
    /\ ~ctxDone
    /\ mapRet.err.count = 1

\* C24: in each map task the map prompt is rendered before the task waits on
\* the rate limiter: a task that waits for its permit, holds it or was
\* refused by the limiter has already called BuildMap, and a task whose
\* segment BuildMap rejects ends with the prompt-build error without ever
\* taking a permit.
PromptBuiltBeforeWait ==
    \A index \in DOMAIN task :
        /\ task[index].pc \in {"sleep", "granted"} => task[index].built
        /\ (task[index].pc = "done" /\ task[index].err = "limiter") => task[index].built
        /\ BuildMap(segments[index + 1]) # "nil" =>
              /\ task[index].pc \in {"start", "done"}
              /\ task[index].pc = "done" => task[index].err = "prompt"

(***************************************************************************)
(* Further properties of the stage chain                                    *)
(***************************************************************************)
TotalCalls == calls.map + calls.reduce + calls.final + calls.script

\* C25: every model call of the map, reduce, final-summary and script stages
\* first takes a permit of the shared limiter, whose permits are at least one
\* interval apart: after n model calls the limiter has handed out n permits,
\* so its next permit is no earlier than n intervals after the start, and a
\* reduce call has moved it past the permit of the last map call.
LimiterGatesEveryCall ==
    /\ limNext >= TotalCalls * RateLimitTicks
    /\ \A index \in PassedLimiter :
          calls.reduce >= 1 => limNext >= task[index].grantAt + 2 * RateLimitTicks

\* the goroutines that have started their model call
CalledTasks ==
    {index \in DOMAIN task :
        \/ task[index].pc = "call"
        \/ task[index].pc = "done" /\ task[index].err \in {"nil", "llm"}}

\* the number of model calls made so far, per stage
CallCounts ==
    /\ calls.map = Cardinality(CalledTasks)
    /\ calls.map <= Len(segments)
    /\ calls.reduce <= 1 /\ calls.final <= 1 /\ calls.script <= 1
    /\ Entered("Outputting") =>
          /\ Len(segments) >= 1
          /\ calls = [map |-> Len(segments), reduce |-> 1, final |-> 1, script |-> 1]
          /\ TotalCalls = Len(segments) + 3

\* a step makes at most one model call, and none for a segment or a stage
\* that has been called before
CallsOnce ==
    /\ TotalCalls' \in {TotalCalls, TotalCalls + 1}
    /\ \A index \in DOMAIN task :
          index \in CalledTasks =>
              /\ index \in CalledTasks'
              /\ calls'.map > calls.map => task'[index] = task[index]
    /\ calls.reduce = 1 => calls'.reduce = 1
    /\ calls.final = 1 => calls'.final = 1
    /\ calls.script = 1 => calls'.script = 1
    /\ state = "Failed" => calls' = calls

\* C26: there is no retry at the stage layer: a successful AI-mode run over
\* N segments makes exactly N + 3 model calls, one per segment in the map
\* phase and one each for reduce, final summary and script, and in a failing
\* run no segment and no stage is called more than once.
NoRetryAtStageLayer == []CallCounts /\ [][CallsOnce]_vars

NoRetryAtStageLayerWitness ==
    /\ state = "Done"
    /\ Len(segments) = 2
    /\ TotalCalls = 5
    /\ CalledTasks = {0, 1}
    /\ Len(mapRet.summaries) = 2

(***************************************************************************)
(* Further properties of the segmenter                                      *)
(***************************************************************************)
\* a split has been chosen for a text that has a document marker fully
\* within its first maxChars runes
SplitWithMarkerInWindow ==
    sgLast.prio # 0 /\ markersInWindow(sgLast.before, sgMax) # {}

\* C27: whenever a document marker lies fully within the window of maxChars
\* runes, the split is chosen by priority 1 and the segment ends exactly at
\* the end, counted in runes, of the last such marker, also when multi-byte
\* runes precede the marker.
DocMarkerSplitExact ==
    SplitWithMarkerInWindow =>
        /\ sgLast.prio = 1
        /\ sgLast.splitIndex = lastMarkerEnd(sgLast.before, sgMax)
        /\ sgSegments[Len(sgSegments)]
              = Slice(sgLast.before, 0, lastMarkerEnd(sgLast.before, sgMax))

\* rune position k of the original text lies strictly inside an occurrence
\* of the document marker
InsideMarker(k) ==
    \E p \in Occurrences(sgText, ContentSeparator) :
        p < k /\ k < p + Len(ContentSeparator)
\* position in the original text of the last split
lastSplitAt == (Len(sgText) - Len(sgLast.before)) + sgLast.splitIndex
\* positions of the original text at which the last iteration could have split
splitPointsOfWindow ==
    {(Len(sgText) - Len(sgLast.before)) + k : k \in 1..sgMax}

\* C28: a split chosen through priority 1, 2 or 3 never falls strictly inside
\* an occurrence of the document marker of the text; a marker is cut only
\* when the window offers no split point outside a marker.
NoSplitInsideMarker ==
    (sgLast.prio # 0 /\ \E k \in splitPointsOfWindow : ~InsideMarker(k)) =>
        ~InsideMarker(lastSplitAt)

\* the window of the last split and its runes that are punctuation or space
lastWindow == Slice(sgLast.before, 0, sgMax)
BreakRunes(w) == {i \in 0..(Len(w) - 1) : IsPunct(w[i + 1]) \/ IsSpace(w[i + 1])}
\* the positions of the window that priority 3 looks at: its last 50 runes
LookbackRange == Max2(0, sgMax - lookback)..(sgMax - 1)
\* neither the document marker nor the paragraph separator gave an accepted split
NoSeparatorSplit ==
    /\ docSplit(lastWindow, sgMax) = -1
    /\ paraSplit(lastWindow, sgMax) = -1

\* C29: when neither a document marker nor a paragraph separator yields an
\* accepted split, the segment ends right after the last punctuation or
\* space rune found among the last 50 runes of the window of maxChars runes,
\* and only when there is no such rune is the text cut at exactly maxChars
\* runes; priorities 3 and 4 are used in no other case.  The warning is
\* logged by the hard cut in verbose mode and by nothing else.
BreakOrHardCut ==
    /\ sgLast.warned <=> (sgLast.prio = 4 /\ sgVerbose)
    /\ sgLast.prio # 0 =>
           /\ sgLast.prio \in {3, 4} <=> NoSeparatorSplit
           /\ sgLast.prio = 3 =>
                 /\ sgLast.splitIndex - 1 \in BreakRunes(lastWindow) \cap LookbackRange
                 /\ \A i \in BreakRunes(lastWindow) : i <= sgLast.splitIndex - 1
           /\ sgLast.prio = 4 =>
                 /\ sgLast.splitIndex = sgMax
                 /\ BreakRunes(lastWindow) \cap LookbackRange = {}
           /\ sgPc = "loop" =>
                 sgSegments[Len(sgSegments)] = Slice(sgLast.before, 0, sgLast.splitIndex)

BreakOrHardCutWitness ==
    /\ sgPc = "loop"
    /\ sgLast.prio = 4
    /\ sgVerbose
    /\ sgLast.warned
    /\ sgMax > lookback
    /\ BreakRunes(lastWindow) # {}
    /\ Len(sgSegments[Len(sgSegments)]) = sgMax

(***************************************************************************)
(* Properties of the combined text                                          *)
(***************************************************************************)
\* the block of the n-th error-free result: the source header with index n,
\* the title (the URL when none is known) and the URL, then the content
expectedBlock(res, n) ==
    <<45,45,45,32,83,79,85,82,67,69,32,68,79,67,85,77,69,78,84,32>>
        \o Itoa(n) \o <<32,45,45,45,10>>
        \o <<84,73,84,76,69,58,32>> \o expectedName(res.url) \o <<10>>
        \o <<85,82,76,58,32>> \o res.url \o <<10,10>>
        \o res.content
RECURSIVE expectedBlocks(_, _)
\* the blocks of the error-free results from the n-th on, the document marker
\* after every block but the last
expectedBlocks(results, n) ==
    IF results = <<>> THEN <<>>
    ELSE expectedBlock(Head(results), n)
             \o (IF Tail(results) # <<>> THEN ContentSeparator ELSE <<>>)
             \o expectedBlocks(Tail(results), n + 1)
ErrorFree(results) == SelectSeq(results, LAMBDA res : res.err = "nil")

\* C30: the combined text has, for every result without error and in input
\* order, one block made of the source header with a 1-based consecutive
\* index, the title (the URL when no title is known) and the URL, followed
\* by the content, and the document marker after every block but the last:
\* k error-free results give exactly k - 1 markers.
CombinedTextStructure ==
    Entered("Summarizing") =>
        /\ loc.combinedTextForAI = expectedBlocks(ErrorFree(runnerResult.Results), 1)
        /\ Cardinality(Occurrences(loc.combinedTextForAI, ContentSeparator))
              = Len(ErrorFree(runnerResult.Results)) - 1

(***************************************************************************)
(* processWithAI choosing the title of the final summary: the title of the  *)
(* reduce output, the fallback title, then the call of GenerateFinalSummary  *)
(***************************************************************************)
\* reduce outputs over '#', ' ', 'T' and '\n'
HeadTexts == UNION {[1..n -> {35, 32, 84, 10}] : n \in 0..MaxHeadLen}

\* the fallback title of the older Run: the title of the first feed item
fallbackTitle(feedTitle, itemTitles) ==
    IF Len(itemTitles) > 0 THEN itemTitles[1] ELSE feedTitle

\* the reduce stage has returned; the older Run has a feed with an item
TlInit ==
    /\ \E text \in HeadTexts, older \in BOOLEAN :
          tl = [older |-> older, reduceResult |-> text, feedTitle |-> <<70>>,
                itemTitles |-> IF older THEN <<(<<73>>)>> ELSE <<>>,
                title |-> <<>>, warned |-> FALSE, pc |-> "extract"]
    /\ MapIdle
    /\ SegIdle
    /\ RunIdle
    /\ ExtIdle
    /\ PbIdle
    /\ FdIdle
    /\ NcIdle
    /\ FxIdle

\* title := cleaner.ExtractTitleFromMarkdown(reduceResult)
TitleExtracted ==
    /\ tl.pc = "extract"
    /\ tl' = [tl EXCEPT !.title = ExtractTitleFromMarkdown(tl.reduceResult),
                        !.pc = "check"]

\* if title == "": a warning, and the title of the feed
TitleFallsBack ==
    /\ tl.pc = "check"
    /\ tl.title = <<>>
    /\ tl' = [tl EXCEPT
                !.title = IF tl.older THEN fallbackTitle(tl.feedTitle, tl.itemTitles)
                          ELSE tl.feedTitle,
                !.warned = TRUE, !.pc = "call"]

\* the extracted title is kept
TitleKept ==
    /\ tl.pc = "check"
    /\ tl.title # <<>>
    /\ tl' = [tl EXCEPT !.pc = "call"]

\* p.Cleaner.GenerateFinalSummary(ctx, title, reduceResult)
TitleUsedInFinalSummary ==
    /\ tl.pc = "call"
    /\ tl' = [tl EXCEPT !.pc = "called"]

TlNext ==
    (TitleExtracted \/ TitleFallsBack \/ TitleKept \/ TitleUsedInFinalSummary)
        /\ UNCHANGED <<segVars, mapVars, runVars, extVars, ctxDeadline, pb, fd, nc, fx>>

SpecTitle == TlInit /\ [][TlNext]_vars

\* the lines of a text that begin with "# "
headingLines(text) ==
    SelectSeq(SplitLines(text), LAMBDA line : HasPrefix(line, <<35, 32>>))

\* C31: the title given to the final-summary call is the content of the first
\* line of the reduce output that begins with "# "; when the reduce output has
\* no such line it is the title of the feed, and the run goes on to the
\* final-summary call.
TitleIsFirstHeading ==
    /\ tl.pc \in {"call", "called"} =>
          tl.title =
              IF headingLines(tl.reduceResult) # <<>>
              THEN TrimSpace(SubSeq(headingLines(tl.reduceResult)[1], 3,
                                    Len(headingLines(tl.reduceResult)[1])))
              ELSE tl.feedTitle
    /\ tl.pc = "check" => ENABLED TlNext

\* C32: when handleOutput takes the synthesis path, the directory of the
\* output path ("out" of "out/o.wav") has been ensured before the synthesizer
\* is invoked.
SynthesisDirEnsured ==
    (io.synth > 0 /\ cfg.OutputWAVPath = "out/o.wav") => io.dir

(***************************************************************************)
(* NewCleaner and the model identifier of each model call                   *)
(***************************************************************************)
DefaultModelName == "gemini-2.5-flash"
DefaultMapModelName == DefaultModelName
DefaultReduceModelName == DefaultModelName
DefaultSummaryModelName == DefaultModelName
DefaultScriptModelName == DefaultModelName
\* in milliseconds
DefaultLLMRateLimit == 1000
\* largest configured interval, in milliseconds
MaxRateInput == 2

ModelNames == {"", "gemini-a", "gemini-b"}
CleanerConfigs ==
    [MapModel : ModelNames, ReduceModel : ModelNames, SummaryModel : ModelNames,
     ScriptModel : ModelNames, LLMRateLimit : -1..MaxRateInput]

\* NewCleaner is called with a client (or nil) and a configuration
NcInit ==
    /\ \E client \in BOOLEAN, config \in CleanerConfigs :
          nc = [client |-> client, input |-> config, config |-> config,
                rateLimit |-> 0, err |-> "nil", mapCalls |-> 0, used |-> {},
                pc |-> "new"]
    /\ MapIdle
    /\ SegIdle
    /\ RunIdle
    /\ ExtIdle
    /\ PbIdle
    /\ FdIdle
    /\ TlIdle
    /\ FxIdle

\* the value of a model field, the default when it is empty
orDefault(name, default) == IF name = "" THEN default ELSE name

\* NewCleaner keeping the configuration as it was given
withDefaultsKeepsEmpty(config) == config
\* the configuration after the default values are set
withDefaults(config) ==
    [MapModel |-> orDefault(config.MapModel, DefaultMapModelName),
     ReduceModel |-> orDefault(config.ReduceModel, DefaultReduceModelName),
     SummaryModel |-> orDefault(config.SummaryModel, DefaultSummaryModelName),
     ScriptModel |-> orDefault(config.ScriptModel, DefaultScriptModelName),
     LLMRateLimit |-> IF config.LLMRateLimit <= 0 THEN DefaultLLMRateLimit
                      ELSE config.LLMRateLimit]

\* NewCleaner: a nil client or a failing NewPromptManager is an error
NewCleaner ==
    /\ nc.pc = "new"
    /\ IF ~nc.client
       THEN nc' = [nc EXCEPT !.err = "nil_client", !.pc = "failed"]
       ELSE \/ nc' = [nc EXCEPT !.config = withDefaults(nc.config),
                                !.err = "prompt_manager", !.pc = "failed"]
            \/ nc' = [nc EXCEPT !.config = withDefaults(nc.config),
                                !.rateLimit = withDefaults(nc.config).LLMRateLimit,
                                !.pc = "map"]

\* a map goroutine: GenerateContent(ctx, prompt, c.config.MapModel)
MapModelCall ==
    /\ nc.pc = "map"
    /\ nc.mapCalls < MaxSegs
    /\ nc' = [nc EXCEPT !.mapCalls = @ + 1,
                        !.used = @ \cup {<<"map", nc.config.MapModel>>}]

\* CleanAndStructureText: GenerateContent(ctx, finalPrompt, c.config.ReduceModel)
ReduceModelCall ==
    /\ nc.pc = "map"
    /\ nc.mapCalls > 0
    /\ nc' = [nc EXCEPT !.used = @ \cup {<<"reduce", nc.config.ReduceModel>>},
                        !.pc = "final"]

\* GenerateFinalSummary: GenerateContent(ctx, prompt, c.config.SummaryModel)
SummaryModelCall ==
    /\ nc.pc = "final"
    /\ nc' = [nc EXCEPT !.used = @ \cup {<<"final", nc.config.SummaryModel>>},
                        !.pc = "script"]

\* GenerateScriptForVoicevox: GenerateContent(ctx, prompt, c.config.ScriptModel)
ScriptModelCall ==
    /\ nc.pc = "script"
    /\ nc' = [nc EXCEPT !.used = @ \cup {<<"script", nc.config.ScriptModel>>},
                        !.pc = "done"]

NcNext ==
    (NewCleaner \/ MapModelCall \/ ReduceModelCall \/ SummaryModelCall
        \/ ScriptModelCall)
        /\ UNCHANGED <<segVars, mapVars, runVars, extVars, ctxDeadline, pb, fd, tl, fx>>

SpecCleaner == NcInit /\ [][NcNext]_vars

\* NewCleaner has returned a Cleaner
CleanerBuilt == nc.pc \in {"map", "final", "script", "done"}

\* the identifier configured for a stage
configuredModel(stageName, input) ==
    CASE stageName = "map" -> input.MapModel
      [] stageName = "reduce" -> input.ReduceModel
      [] stageName = "final" -> input.SummaryModel
      [] stageName = "script" -> input.ScriptModel
\* the identifier the Cleaner must use in a stage for the configuration given
stageModel(stageName, input) ==
    IF configuredModel(stageName, input) = "" THEN "gemini-2.5-flash"
    ELSE configuredModel(stageName, input)

\* C33: after NewCleaner succeeds the four stage identifiers are non-empty, an
\* empty configured one being replaced by the shared default and the others
\* kept, and the rate-limit interval is positive, a non-positive one being
\* replaced by the default of one second; every model call then passes the
\* identifier of its own stage.
StageModelsSet ==
    CleanerBuilt =>
        /\ \A stageName \in {"map", "reduce", "final", "script"} :
              stageModel(stageName, nc.input) # ""
        /\ nc.config.MapModel = stageModel("map", nc.input)
        /\ nc.config.ReduceModel = stageModel("reduce", nc.input)
        /\ nc.config.SummaryModel = stageModel("final", nc.input)
        /\ nc.config.ScriptModel = stageModel("script", nc.input)
        /\ nc.rateLimit > 0
        /\ nc.rateLimit = IF nc.input.LLMRateLimit <= 0 THEN 1000
                          ELSE nc.input.LLMRateLimit
        /\ \A call \in nc.used : call[2] = stageModel(call[1], nc.input)
        /\ nc.pc = "done" =>
              {call[1] : call \in nc.used} = {"map", "reduce", "final", "script"}

\* a Cleaner built from a configuration with an empty map identifier, a set
\* reduce identifier and a non-positive interval has made all its calls
StageModelsSetWitness ==
    /\ nc.pc = "done"
    /\ nc.input.MapModel = ""
    /\ nc.input.ReduceModel = "gemini-a"
    /\ nc.input.ScriptModel = "gemini-b"
    /\ nc.input.LLMRateLimit = 0
    /\ nc.mapCalls = MaxSegs

(***************************************************************************)
(* runFeedExtraction: one goroutine per article behind a weighted           *)
(* semaphore, the results channel, then the combined text and the sink       *)
(***************************************************************************)
\* "【記事タイトル】"
ArticleTitleLabel == <<12304, 35352, 20107, 12479, 12452, 12488, 12523, 12305>>

\* the articles kept from the feed: URL "u1", "u2", ... and title "T"
articlesOf(n) == [i \in 1..n |-> [URL |-> <<117, 48 + i>>, Title |-> <<84>>]]

\* what FetchAndExtractText returns: content, hasBodyFound, err
Extractions ==
    {[content |-> <<>>, hasBodyFound |-> FALSE, err |-> TRUE],
     [content |-> <<>>, hasBodyFound |-> TRUE, err |-> FALSE],
     [content |-> <<97>>, hasBodyFound |-> FALSE, err |-> FALSE],
     [content |-> <<97>>, hasBodyFound |-> TRUE, err |-> FALSE]}

\* finalErr of an extraction
finalErr(x) ==
    IF x.err THEN "extract"
    ELSE IF x.content = <<>> \/ ~x.hasBodyFound THEN "no_body" ELSE "nil"

\* the articles are known, the goroutines are started and wg.Wait is reached
FxInit ==
    /\ \E n \in 1..MaxArticles, parallel \in 0..MaxParallel,
          feedTitle \in {<<>>, <<70>>} :
          fx = [parallel |-> parallel, feedTitle |-> feedTitle,
                articles |-> articlesOf(n), ctxDone |-> FALSE, cur |-> 0,
                g |-> [i \in 1..n |-> [pc |-> "start", attempted |-> FALSE]],
                results |-> <<>>, closed |-> FALSE, combinedText |-> <<>>,
                successCount |-> 0, written |-> <<>>, writes |-> 0,
                ret |-> "nil", pc |-> "wait"]
    /\ MapIdle
    /\ SegIdle
    /\ RunIdle
    /\ ExtIdle
    /\ PbIdle
    /\ FdIdle
    /\ TlIdle
    /\ NcIdle

\* the ExtractedArticle a goroutine sends
extracted(i, content, err) ==
    [URL |-> fx.articles[i].URL, Title |-> fx.articles[i].Title,
     Content |-> content, Error |-> err]

\* sem.Acquire(ctx, 1) returns nil: a permit is free; when the context is
\* already done the library may still hand the free permit out
FxAcquire(i) ==
    /\ fx.pc = "wait"
    /\ fx.g[i].pc = "start"
    /\ fx.cur < fx.parallel
    /\ fx' = [fx EXCEPT !.cur = @ + 1, !.g[i].pc = "inflight"]

\* sem.Acquire returns ctx.Err(): the goroutine sends a result and returns
FxAcquireFailsSilently(i) ==
    /\ fx.pc = "wait"
    /\ fx.g[i].pc = "start"
    /\ fx.ctxDone
    /\ fx' = [fx EXCEPT !.g[i].pc = "done"]
FxAcquireFails(i) ==
    /\ fx.pc = "wait"
    /\ fx.g[i].pc = "start"
    /\ fx.ctxDone
    /\ fx' = [fx EXCEPT !.results = Append(@, extracted(i, <<>>, "semaphore")),
                        !.g[i].pc = "done"]

\* FetchAndExtractText returns and the result is sent; the goroutine still
\* holds its permit
FxExtract(i) ==
    /\ fx.pc = "wait"
    /\ fx.g[i].pc = "inflight"
    /\ \E x \in Extractions :
          fx' = [fx EXCEPT
                    !.results = Append(@, extracted(i, x.content, finalErr(x))),
                    !.g[i] = [pc |-> "sent", attempted |-> TRUE]]

\* the goroutine returns without giving its permit back
FxReleaseKeepsPermit(i) ==
    /\ fx.pc = "wait"
    /\ fx.g[i].pc = "sent"
    /\ fx' = [fx EXCEPT !.g[i].pc = "done"]
\* the goroutine returns: the deferred sem.Release(1), then wg.Done()
FxRelease(i) ==
    /\ fx.pc = "wait"
    /\ fx.g[i].pc = "sent"
    /\ fx' = [fx EXCEPT !.cur = @ - 1, !.g[i].pc = "done"]

\* the timeout of the context fires while goroutines are running
FxTimeout ==
    /\ fx.pc = "wait"
    /\ ~fx.ctxDone
    /\ \E i \in DOMAIN fx.g : fx.g[i].pc # "done"
    /\ fx' = [fx EXCEPT !.ctxDone = TRUE]

\* wg.Wait() returns and the channel is closed
FxJoin ==
    /\ fx.pc = "wait"
    /\ \A i \in DOMAIN fx.g : fx.g[i].pc = "done"
    /\ fx' = [fx EXCEPT !.closed = TRUE, !.pc = "collect"]

\* the section of a result without error
fxSection(res) ==
    <<35, 35, 32>> \o ArticleTitleLabel \o <<32>>
        \o (IF res.Title = <<>> THEN res.URL ELSE res.Title) \o <<10, 10>>
        \o res.Content \o <<10, 10, 45, 45, 45, 10, 10>>

RECURSIVE fxSections(_)
fxSections(results) ==
    IF results = <<>> THEN <<>>
    ELSE (IF Head(results).Error # "nil" THEN <<>> ELSE fxSection(Head(results)))
            \o fxSections(Tail(results))

\* the header of the feed and the loop over the results
FxCollect ==
    /\ fx.pc = "collect"
    /\ fx' = [fx EXCEPT
                !.combinedText =
                    <<35, 32>> \o fx.feedTitle \o <<10, 10>> \o fxSections(fx.results),
                !.successCount =
                    Len(SelectSeq(fx.results, LAMBDA res : res.Error = "nil")),
                !.pc = "output"]

\* the error for an empty combined text, or iohandler.WriteOutput
FxOutput ==
    /\ fx.pc = "output"
    /\ IF fx.combinedText = <<>>
       THEN fx' = [fx EXCEPT !.ret = "no_body", !.pc = "returned"]
       ELSE \E err \in {"nil", "sink"} :
               fx' = [fx EXCEPT !.written = fx.combinedText, !.writes = @ + 1,
                                !.ret = err, !.pc = "returned"]

FxStep ==
    \/ \E i \in DOMAIN fx.g : FxAcquire(i)
    \/ \E i \in DOMAIN fx.g : FxAcquireFails(i)
    \/ \E i \in DOMAIN fx.g : FxExtract(i)
    \/ \E i \in DOMAIN fx.g : FxRelease(i)
    \/ FxTimeout
    \/ FxJoin
    \/ FxCollect
    \/ FxOutput

FxNext ==
    FxStep /\ UNCHANGED <<segVars, mapVars, runVars, extVars, ctxDeadline, pb, fd, tl, nc>>

SpecFetch == FxInit /\ [][FxNext]_vars

\* every goroutine, the timer of the context and runFeedExtraction itself
\* keep running
SpecFetchFair == SpecFetch /\ WF_vars(FxNext)

(***************************************************************************)
(* Properties of runFeedExtraction                                          *)
(***************************************************************************)
\* the goroutines inside FetchAndExtractText
InFlight == {i \in DOMAIN fx.g : fx.g[i].pc = "inflight"}
\* the goroutines that hold a permit: between sem.Acquire and sem.Release
Holding == {i \in DOMAIN fx.g : fx.g[i].pc \in {"inflight", "sent"}}
\* the goroutines whose sem.Acquire failed
Refused ==
    {i \in DOMAIN fx.g :
        \E k \in 1..Len(fx.results) :
            /\ fx.results[k].URL = fx.articles[i].URL
            /\ fx.results[k].Error = "semaphore"}
Attempted == {i \in DOMAIN fx.g : fx.g[i].attempted}

\* at most `parallel` extractions are in flight, and the permits in use are
\* those of the goroutines between sem.Acquire and sem.Release: a goroutine
\* that has returned holds none
PermitsBounded ==
    /\ Cardinality(InFlight) <= fx.parallel
    /\ fx.cur = Cardinality(Holding)
    /\ fx.cur <= fx.parallel

\* C34 as stated: in every interleaving at most `parallel` extractions are in
\* flight, and with parallel >= 1 every article is eventually attempted.
FetchBoundedAllAttempted ==
    /\ []PermitsBounded
    /\ \A i \in 1..MaxArticles :
          (fx.parallel >= 1 /\ i \in DOMAIN fx.g) ~> (i \in Attempted)

\* C34, amended: in every interleaving at most `parallel` extractions are in
\* flight and each finished extraction gives its permit back; with
\* parallel >= 1 every article is eventually attempted unless the context is
\* done before its goroutine gets a permit, in which case the goroutine is
\* refused; a goroutine is refused only when the context is done.
FetchBounded ==
    /\ [](PermitsBounded /\ (Refused # {} => fx.ctxDone))
    /\ \A i \in 1..MaxArticles :
          (fx.parallel >= 1 /\ i \in DOMAIN fx.g) ~> (i \in Attempted \cup Refused)

\* two articles behind one permit: the first has been attempted and has given
\* its permit back, the second holds it now, and the context is not done
FetchBoundedWitness ==
    /\ fx.parallel = 1
    /\ Len(fx.articles) = 2
    /\ InFlight = {2}
    /\ Attempted = {1}
    /\ fx.g[1].pc = "done"
    /\ fx.cur = 1
    /\ ~fx.ctxDone

\* the positions in the results channel of the results of article i
resultsFor(i) ==
    {k \in 1..Len(fx.results) :
        /\ fx.results[k].URL = fx.articles[i].URL
        /\ fx.results[k].Title = fx.articles[i].Title}

\* C35: every goroutine sends exactly one result for its article, and none
\* before its extraction has returned or its sem.Acquire has failed, in every
\* interleaving and under cancellation: a goroutine whose sem.Acquire fails
\* because the context is done sends one result carrying the error of the
\* semaphore; the results are read only after all goroutines have finished,
\* when there is exactly one result per article.
OneResultPerArticle ==
    /\ \A i \in DOMAIN fx.g :
          /\ Cardinality(resultsFor(i)) =
                IF fx.g[i].pc \in {"sent", "done"} THEN 1 ELSE 0
          /\ (fx.g[i].pc = "done" /\ ~fx.g[i].attempted) =>
                \A k \in resultsFor(i) : fx.results[k].Error = "semaphore"
          /\ fx.g[i].attempted =>
                \A k \in resultsFor(i) : fx.results[k].Error # "semaphore"
    /\ Len(fx.results) <= Len(fx.articles)
    /\ fx.pc \in {"collect", "output", "returned"} =>
          /\ \A i \in DOMAIN fx.g : fx.g[i].pc = "done"
          /\ Len(fx.results) = Len(fx.articles)
          /\ fx.closed
    /\ fx.pc \in {"wait", "collect"} =>
          fx.combinedText = <<>> /\ fx.successCount = 0

\* the results of two articles have been read: one was extracted, the other
\* was refused by the semaphore after the timeout
OneResultPerArticleWitness ==
    /\ fx.pc = "returned"
    /\ Len(fx.articles) = 2
    /\ Cardinality(Attempted) = 1
    /\ Cardinality(Refused) = 1
    /\ fx.ctxDone

\* C36: when every extraction of runFeedExtraction has failed, the function
\* returns the error that no article body was found and writes nothing to the
\* text sink.
ZeroSuccessWritesNothing ==
    (fx.pc = "returned" /\ \A k \in 1..Len(fx.results) : fx.results[k].Error # "nil")
        => (fx.ret = "no_body" /\ fx.writes = 0)

(***************************************************************************)
(* Termination of a run                                                     *)
(***************************************************************************)
\* C37: when every goroutine, collaborator call and timer of the limiter
\* eventually returns, the map phase eventually gets past wg.Wait and the run
\* eventually reaches Done or Failed, in every interleaving of the map tasks.
RunTerminates == <>(mapPc = "returned" /\ state \in {"Done", "Failed"})

\* a run is Done after the goroutines of MaxSegs segments took their permits
\* one interval apart
RunTerminatesWitness ==
    /\ state = "Done"
    /\ Len(segments) = MaxSegs
    /\ now >= RateLimitTicks
    /\ \A index \in DOMAIN task : task[index].err = "nil"

\* every segment emitted so far is non-empty and passes the check of BuildMap,
\* every loop iteration has consumed at least one rune, and the empty text
\* has given no segment
SegmentsNonEmpty ==
    /\ \A k \in 1..Len(sgSegments) :
          sgSegments[k] # <<>> /\ BuildMap(sgSegments[k]) = "nil"
    /\ sgLast # NoSplit => sgLast.splitIndex >= 1
    /\ Len(sgSegments) <= Len(sgText)
    /\ sgPc = "loop" => Len(sgSegments) <= Len(sgText) - Len(sgCurrent)
    /\ (sgPc = "done" /\ sgText = <<>>) => sgSegments = <<>>

\* C38: for every text and every budget of at least 1, segmentText
\* terminates and every segment it emits is non-empty, each loop iteration
\* consuming at least one rune, so that BuildMap never rejects a segment of
\* the Segmenter as empty; the empty text yields zero segments.
SegmenterProgress == []SegmentsNonEmpty /\ <>(sgPc = "done")

\* a text cut at budget 1 into as many segments as it has runes
SegmenterProgressWitness ==
    /\ sgPc = "done"
    /\ sgMax = 1
    /\ Len(sgText) >= 3
    /\ Len(sgSegments) = Len(sgText)

\* the results without error of the run, and those of them with a content
ErrorFreeResults == ErrorFree(runnerResult.Results)
ResultsWithContent == SelectSeq(ErrorFreeResults, LAMBDA res : res.content # <<>>)
\* an AI-mode run in which some result has no error and every result without
\* error has an empty content
OnlyEmptySuccesses ==
    /\ useAI(cfg)
    /\ ErrorFreeResults # <<>>
    /\ \A k \in 1..Len(ErrorFreeResults) : ErrorFreeResults[k].content = <<>>

\* C39: a result without error counts as a success of the zero-success rule
\* even when its content is empty, but CombineContents leaves it out; so in
\* an AI-mode run whose results without error all have an empty content the
\* run passes the zero-success rule, the combined text is empty, there are no
\* segments and no map task, the map phase returns no summary and no error,
\* the reduce prompt is refused, and Run fails without any model call.
EmptySuccessesFailAtReduce ==
    /\ (useAI(cfg) /\ state = "Summarizing") =>
          /\ loc.successfulResults = ErrorFreeResults
          /\ loc.combinedTextForAI = expectedBlocks(ResultsWithContent, 1)
    /\ OnlyEmptySuccesses =>
          /\ runErr # "no_article"
          /\ state \in {"Fetching", "Scraping", "Summarizing", "Failed"}
          /\ state = "Summarizing" =>
                /\ loc.combinedTextForAI = <<>>
                /\ segments = <<>>
                /\ DOMAIN task = {}
                /\ stage = "map"
          /\ mapPc = "returned" => (mapRet.err.kind = "nil" /\ mapRet.summaries = <<>>)
          /\ state = "Failed" => (runErr = "reduce_prompt" /\ mapPc = "returned")
          /\ calls = NoCalls

\* a run with a failed article and an article of empty content has failed at
\* the reduce prompt
EmptySuccessesFailAtReduceWitness ==
    /\ OnlyEmptySuccesses
    /\ Len(runnerResult.Results) = 2
    /\ Len(ErrorFreeResults) = 1
    /\ state = "Failed"
    /\ runErr = "reduce_prompt"

\* the response has a start marker and a later end marker with nothing but
\* whitespace between them
BlankMarkedSpan(text) == HasMarkedSpan(text) /\ MarkedText(text) = <<>>

\* C40: for a response whose start marker and following end marker enclose
\* only whitespace or nothing, GenerateScriptForVoicevox returns the whole
\* response, markers included, and not an empty script; the returned text is
\* empty only when the response itself is empty.
BlankScriptFallsBack ==
    exPc = "done" =>
        /\ BlankMarkedSpan(exText) => exOut = exText
        /\ exOut = <<>> => exText = <<>>

\* the response "<SCRIPT_START> </SCRIPT_END>" followed by a letter has been
\* returned whole
BlankScriptFallsBackWitness ==
    /\ exPc = "done"
    /\ exText = StartMarker \o <<32>> \o ClosedEndMarker \o <<104>>
    /\ exOut = exText

====
